---- MODULE Spec2Model ----
(***************************************************************************)
(* FireworksDesigner: the show timeline (js/show.js), the firework phase   *)
(* machine and its particles (Firework, js/particle.js), the launchers     *)
(* (Launcher, LauncherManager) and the type tables (js/types.js).          *)
(*                                                                         *)
(* Units.  Times are integer milliseconds (the code's dt is in seconds,    *)
(* the model's dt is the same dt in ms).  The rocket's velocity is in      *)
(* milli-pixels per second and its position in micro-pixels, so that       *)
(* vy += 100*dt and y += vy*dt are exact in integers.  Math.random() is    *)
(* r / RandSteps for a drawn r in 0..RandSteps-1.                          *)
(***************************************************************************)
EXTENDS Integers, Sequences, FiniteSets, TLC

VARIABLES
    events,           \* Show.events: sequence of launch events
    activeFireworks,  \* Show.activeFireworks: sequence of live fireworks
    currentTime,      \* Show.currentTime (ms)
    duration,         \* Show.duration (ms)
    isPlaying,        \* Show.isPlaying
    playbackSpeed,    \* Show.playbackSpeed
    loop,             \* Show.loop
    launchers,        \* LauncherManager.launchers: sequence of launchers
    nextId,           \* LauncherManager.nextId
    evtSeq,           \* number of ids generateEventId has handed out
    raised,           \* the last call ended by raising an error
    last,             \* what the last call did (history, see NoLast)
    undoStack,        \* undoStack: sequence of snapshots, newest last
    redoStack,        \* redoStack: sequence of snapshots, newest last
    weather,          \* the global weather state (js/weather.js)
    audio,            \* the global audio state (js/audio.js)
    freed             \* the ids removeLauncher has taken out (history)

vars == <<events, activeFireworks, currentTime, duration, isPlaying,
          playbackSpeed, loop, launchers, nextId, evtSeq, raised, last,
          undoStack, redoStack, weather, audio, freed>>

(***************************************************************************)
(* Bounds of the model.                                                    *)
(***************************************************************************)
MaxEvents == 2        \* events in the list at once (playback)
MaxListed == 3        \* events in the list at once (editing)
MaxAdds == 4          \* ids generateEventId hands out in one run
MaxLive == 2          \* fireworks live at once
MaxTime == 7000       \* the clock is not advanced beyond this
RandSteps == 2        \* Math.random() takes the values r / RandSteps
FewLong == 5          \* a draw may give just this many particles a long life
AllOfThem == 1000     \* or all of them (more than any burst holds)
CanvasWidth == 900
CanvasHeight == 600

Min(a, b) == IF a < b THEN a ELSE b
Max(a, b) == IF a > b THEN a ELSE b

(***************************************************************************)
(* js/types.js                                                             *)
(***************************************************************************)
TypeRow(s, m, l, lmin, lmax, tl, sec, split, pat, g) ==
    [particleCount |-> [small |-> s, medium |-> m, large |-> l],
     gravity |-> g,
     lifeMin |-> lmin, lifeMax |-> lmax, trailLength |-> tl,
     hasSecondaryBurst |-> sec, secondaryDelay |-> 500, secondaryCount |-> 3,
     hasSplit |-> split, splitDelay |-> 400, splitCount |-> 4,
     customPattern |-> pat]

FIREWORK_TYPES ==
    [chrysanthemum |-> TypeRow(60, 100, 150, 1500, 2500, 8, FALSE, FALSE, "none", 40),
     willow        |-> TypeRow(50, 80, 120, 2500, 3500, 15, FALSE, FALSE, "none", 80),
     palm          |-> TypeRow(35, 50, 70, 1800, 2500, 12, FALSE, FALSE, "none", 50),
     peony         |-> TypeRow(80, 120, 180, 1200, 2000, 0, FALSE, FALSE, "none", 35),
     crackle       |-> TypeRow(40, 60, 90, 1000, 1800, 5, TRUE, FALSE, "none", 45),
     ring          |-> TypeRow(30, 40, 60, 1500, 2000, 3, FALSE, FALSE, "none", 20),
     heart         |-> TypeRow(40, 60, 80, 1800, 2500, 6, FALSE, FALSE, "heart", 30),
     comet         |-> TypeRow(1, 1, 1, 2000, 3000, 25, FALSE, FALSE, "none", 60),
     crossette     |-> TypeRow(20, 30, 45, 2000, 2800, 8, FALSE, TRUE, "none", 35),
     brocade       |-> TypeRow(80, 120, 180, 2500, 3500, 4, FALSE, FALSE, "none", 70),
     strobe        |-> TypeRow(50, 70, 100, 2000, 3000, 0, FALSE, FALSE, "none", 40),
     waterfall     |-> TypeRow(60, 90, 130, 2500, 4000, 12, FALSE, FALSE, "none", 120),
     saturn        |-> TypeRow(60, 80, 110, 1800, 2500, 6, FALSE, FALSE, "saturn", 35),
     spider        |-> TypeRow(8, 12, 16, 3000, 4500, 30, FALSE, FALSE, "none", 15)]

\* SIZE_MULTIPLIERS[size].particles, in tenths
SIZE_MULTIPLIERS == [small |-> 6, medium |-> 10, large |-> 14]

\* HEIGHT_CONFIGS: burstY in pixels, launchSpeed in pixels per second
HEIGHT_CONFIGS ==
    [low    |-> [burstY |-> 350, launchSpeed |-> 300],
     medium |-> [burstY |-> 250, launchSpeed |-> 400],
     high   |-> [burstY |-> 150, launchSpeed |-> 500]]

\* TRAIL_CONFIGS[trail].trailMultiplier
TRAIL_CONFIGS == [none |-> 0, sparkle |-> 1, comet |-> 2]

\* JavaScript's  m || 1  on a number
OrOne(m) == IF m = 0 THEN 1 ELSE m

(***************************************************************************)
(* Randomness.  A draw [r, k] gives the first k random numbers a firework  *)
(* consumes in one tick the value r / RandSteps and the others the value   *)
(* 0.                                                                      *)
(***************************************************************************)
Draws ==
    {[r |-> 0, k |-> 0]} \cup
    {[r |-> r, k |-> k] : r \in 1..(RandSteps - 1), k \in {FewLong, AllOfThem}}

Rand(d, i) == IF i <= d.k THEN d.r ELSE 0

\* min + Math.random() * (max - min)
RandBetween(lo, hi, r) == lo + (r * (hi - lo)) \div RandSteps

(***************************************************************************)
(* js/particle.js.  Particles that were created together with the same     *)
(* lifetime age together, so a firework's particle list is kept as a       *)
(* sequence of groups [age, lifetime, n, trailLength, y, vy, gravity] in   *)
(* list order.  y (micro-pixels) and vy (thousandths of a pixel per        *)
(* second) are the height and the vertical velocity of the group's         *)
(* particles that were created with sin(angle) = 0 (index 0 and index n/2  *)
(* of a full-circle burst, j = 0 of a secondary burst or a split).  They   *)
(* are followed for the types whose update reads a particle's position     *)
(* (secondary burst, split); the groups of the other types are given       *)
(* gravity 0 and stay where they were created.                             *)
(***************************************************************************)
ParticleGroup(lifetime, n, trailLength, y, vy, gravity) ==
    [age |-> 0, lifetime |-> lifetime, n |-> n, trailLength |-> trailLength,
     y |-> y, vy |-> vy, gravity |-> gravity]

\* the groups of gs that hold at least one particle
NonEmpty(gs) == SelectSeq(gs, LAMBDA g : g.n > 0)

RECURSIVE CountParticles(_)
CountParticles(gs) ==
    IF gs = <<>> THEN 0 ELSE Head(gs).n + CountParticles(Tail(gs))

\* vy after one update: (vy + gravity * dt) * friction, friction 0.99
FallSpeed(g, dt) == ((g.vy + g.gravity * dt) * 99) \div 100

\* Particle.update(dt): vy += gravity * dt; vy *= friction; y += vy * dt;
\* age += dt; returns age < lifetime
ParticleUpdate(g, dt) ==
    [g EXCEPT !.age = g.age + dt,
              !.vy = FallSpeed(g, dt),
              !.y = g.y + FallSpeed(g, dt) * dt]

ParticleAlive(g) == g.age < g.lifetime

\* this.particles = this.particles.filter(p => p.update(dt))
UpdateParticles(gs, dt) ==
    SelectSeq([i \in 1..Len(gs) |-> ParticleUpdate(gs[i], dt)], ParticleAlive)

(***************************************************************************)
(* Firework (constructor, initRocket)                                      *)
(***************************************************************************)
\* micro-pixels per pixel
Micro == 1000 * 1000

\* the constructor reads HEIGHT_CONFIGS[height].burstY and initRocket reads
\* TRAIL_CONFIGS[trail].trailMultiplier: a TypeError when the row is missing
FireworkConstructs(config) ==
    /\ config.height \in DOMAIN HEIGHT_CONFIGS
    /\ config.trail \in DOMAIN TRAIL_CONFIGS

FireworkNew(config) ==
    [eid |-> config.eid,
     launchY |-> config.launchY,
     burstY |-> HEIGHT_CONFIGS[config.height].burstY,
     launchSpeed |-> HEIGHT_CONFIGS[config.height].launchSpeed,
     type |-> config.type,
     size |-> config.size,
     trailEffect |-> config.trail,
     phase |-> "launch",
     phaseTime |-> 0,
     rocketY |-> config.launchY * Micro,
     rocketVy |-> -(HEIGHT_CONFIGS[config.height].launchSpeed * 1000),
     rocketTrailLength |-> 15 * OrOne(TRAIL_CONFIGS[config.trail]),
     y |-> config.launchY * Micro,
     particles |-> <<>>,
     secondaryBurstTriggered |-> FALSE,
     splitTriggered |-> FALSE]

(***************************************************************************)
(* Firework.burst and the pattern generators                               *)
(***************************************************************************)
\* burst() reads this.typeConfig.particleCount and, for a size the row does
\* not list, SIZE_MULTIPLIERS[size].particles: a TypeError when missing
BurstRuns(fw) ==
    /\ fw.type \in DOMAIN FIREWORK_TYPES
    /\ fw.size \in DOMAIN SIZE_MULTIPLIERS

BurstParticleCount(fw) == FIREWORK_TYPES[fw.type].particleCount[fw.size]

\* Math.floor(config.trailLength * (trailConfig.trailMultiplier || 1))
BurstTrailLength(fw) ==
    FIREWORK_TYPES[fw.type].trailLength * OrOne(TRAIL_CONFIGS[fw.trailEffect])

\* createBurstParticle / createHeartPattern / createSaturnPattern: one
\* particle per index, each with lifetime min + random * (max - min)
BurstParticles(fw, d) ==
    LET cfg == FIREWORK_TYPES[fw.type]
        n == BurstParticleCount(fw)
        nr == Min(d.k, n)
        tl == BurstTrailLength(fw)
        g == IF cfg.hasSecondaryBurst \/ cfg.hasSplit THEN cfg.gravity ELSE 0
    IN  NonEmpty(<<ParticleGroup(RandBetween(cfg.lifeMin, cfg.lifeMax, d.r), nr, tl,
                                 fw.y, 0, g),
                   ParticleGroup(RandBetween(cfg.lifeMin, cfg.lifeMax, 0), n - nr, tl,
                                 fw.y, 0, g)>>)

\* the group that holds the particle of index i (from 0) of the list gs
RECURSIVE GroupAt(_, _)
GroupAt(gs, i) ==
    IF Len(gs) = 1 \/ i < Head(gs).n THEN Head(gs)
    ELSE GroupAt(Tail(gs), i - Head(gs).n)

\* this.particles[Math.floor(Math.random() * this.particles.length)]
Selected(gs, r) == GroupAt(gs, (r * CountParticles(gs)) \div RandSteps)

\* a secondary burst that always makes secondaryCount selections
SecondaryParticlesUncapped(gs, cfg, d) ==
    IF gs = <<>> THEN <<>>
    ELSE <<ParticleGroup(RandBetween(300, 600, 0), 8 * cfg.secondaryCount, 0,
                         Selected(gs, 0).y, 0, 60)>>

\* triggerSecondaryBurst: min(secondaryCount, floor(0.3 * length)) selections,
\* 8 particles pushed per selection at the selected particle's position,
\* gravity 60, lifetime 0.3 + random * 0.3, no trail
SecondaryParticles(gs, cfg, d) ==
    LET burstCount == Min(cfg.secondaryCount, (CountParticles(gs) * 3) \div 10)
        nr == Min(d.k, burstCount)
    IN  IF burstCount = 0 THEN <<>>
        ELSE NonEmpty(<<ParticleGroup(RandBetween(300, 600, d.r), 8 * nr, 0,
                                      Selected(gs, d.r).y, 0, 60),
                        ParticleGroup(RandBetween(300, 600, 0), 8 * (burstCount - nr), 0,
                                      Selected(gs, 0).y, 0, 60)>>)

\* triggerCrossetteSplit: the particles with random < 0.6 each push
\* splitCount particles, lifetime 0.8 + random * 0.5, trail length 6
SplitParticles(gs, cfg, d) ==
    LET len == CountParticles(gs)
        nr == Min(d.k, len)
        passR == IF d.r * 10 < 6 * RandSteps THEN nr ELSE 0
    IN  IF len = 0 THEN <<>>
        ELSE NonEmpty(<<ParticleGroup(RandBetween(800, 1300, d.r), cfg.splitCount * passR, 6,
                                      Head(gs).y, (3 * Head(gs).vy) \div 10, 50),
                        ParticleGroup(RandBetween(800, 1300, 0), cfg.splitCount * (len - nr), 6,
                                      gs[Len(gs)].y, (3 * gs[Len(gs)].vy) \div 10, 50)>>)

(***************************************************************************)
(* Firework.update and its three phase handlers.  Each returns             *)
(* [fw, threw]: the firework as the call leaves it and whether the call    *)
(* raised.                                                                 *)
(***************************************************************************)
\* updateLaunch bursting on a timer instead of on the rocket's flight
UpdateLaunchTimed(fw, dt, d) ==
    LET vy == fw.rocketVy + 100 * dt
        y == fw.rocketY + vy * dt
        moved == [fw EXCEPT !.rocketVy = vy, !.rocketY = y]
    IN  IF fw.phaseTime >= 500
        THEN [fw |-> [moved EXCEPT !.y = y,
                                   !.particles = BurstParticles([fw EXCEPT !.y = y], d),
                                   !.phase = "burst",
                                   !.phaseTime = 0],
              threw |-> FALSE]
        ELSE [fw |-> moved, threw |-> FALSE]

UpdateLaunch(fw, dt, d) ==
    LET vy == fw.rocketVy + 100 * dt
        y == fw.rocketY + vy * dt
        moved == [fw EXCEPT !.rocketVy = vy, !.rocketY = y]
    IN  IF y <= fw.burstY * Micro \/ vy >= 0
        THEN IF BurstRuns(fw)
             THEN [fw |-> [moved EXCEPT !.y = y,
                                        !.particles = BurstParticles([fw EXCEPT !.y = y], d),
                                        !.phase = "burst",
                                        !.phaseTime = 0],
                   threw |-> FALSE]
             ELSE [fw |-> [moved EXCEPT !.y = y], threw |-> TRUE]
        ELSE [fw |-> moved, threw |-> FALSE]

\* updateBurst without the one-shot flags
UpdateBurstRepeats(fw, dt, d) ==
    LET cfg == FIREWORK_TYPES[fw.type]
        p0 == UpdateParticles(fw.particles, dt)
        doSecondary == cfg.hasSecondaryBurst /\ fw.phaseTime >= cfg.secondaryDelay
        p1 == IF doSecondary THEN p0 \o SecondaryParticles(p0, cfg, d) ELSE p0
        doSplit == cfg.hasSplit /\ fw.phaseTime >= cfg.splitDelay
        p2 == IF doSplit THEN p1 \o SplitParticles(p1, cfg, d) ELSE p1
        f1 == [fw EXCEPT !.particles = p2,
                         !.secondaryBurstTriggered = @ \/ doSecondary,
                         !.splitTriggered = @ \/ doSplit]
    IN  IF CountParticles(p2) < 10
        THEN [fw |-> [f1 EXCEPT !.phase = "fade", !.phaseTime = 0], threw |-> FALSE]
        ELSE [fw |-> f1, threw |-> FALSE]

\* updateBurst that never moves the firework on to fade
UpdateBurstNoFade(fw, dt, d) ==
    [fw |-> [fw EXCEPT !.particles = UpdateParticles(fw.particles, dt)],
     threw |-> FALSE]

\* updateBurst going straight to done when most particles are gone
UpdateBurstSkipsFade(fw, dt, d) ==
    LET ps == UpdateParticles(fw.particles, dt)
        f1 == [fw EXCEPT !.particles = ps]
    IN  IF CountParticles(ps) < 10
        THEN [fw |-> [f1 EXCEPT !.phase = "done"], threw |-> FALSE]
        ELSE [fw |-> f1, threw |-> FALSE]

UpdateBurst(fw, dt, d) ==
    LET cfg == FIREWORK_TYPES[fw.type]
        p0 == UpdateParticles(fw.particles, dt)
        doSecondary == /\ cfg.hasSecondaryBurst
                       /\ ~fw.secondaryBurstTriggered
                       /\ fw.phaseTime >= cfg.secondaryDelay
        p1 == IF doSecondary THEN p0 \o SecondaryParticles(p0, cfg, d) ELSE p0
        doSplit == /\ cfg.hasSplit
                   /\ ~fw.splitTriggered
                   /\ fw.phaseTime >= cfg.splitDelay
        p2 == IF doSplit THEN p1 \o SplitParticles(p1, cfg, d) ELSE p1
        f1 == [fw EXCEPT !.particles = p2,
                         !.secondaryBurstTriggered = @ \/ doSecondary,
                         !.splitTriggered = @ \/ doSplit]
    IN  IF CountParticles(p2) < 10
        THEN [fw |-> [f1 EXCEPT !.phase = "fade", !.phaseTime = 0], threw |-> FALSE]
        ELSE [fw |-> f1, threw |-> FALSE]

\* updateFade without the 3 second timeout
UpdateFadeNoTimeout(fw, dt) ==
    LET ps == UpdateParticles(fw.particles, dt)
        f1 == [fw EXCEPT !.particles = ps]
    IN  IF CountParticles(ps) = 0
        THEN [fw |-> [f1 EXCEPT !.phase = "done"], threw |-> FALSE]
        ELSE [fw |-> f1, threw |-> FALSE]

\* updateFade that never marks the firework done
UpdateFadeNoEnd(fw, dt) ==
    [fw |-> [fw EXCEPT !.particles = UpdateParticles(fw.particles, dt)],
     threw |-> FALSE]

UpdateFade(fw, dt) ==
    LET ps == UpdateParticles(fw.particles, dt)
        f1 == [fw EXCEPT !.particles = ps]
    IN  IF CountParticles(ps) = 0 \/ fw.phaseTime > 3000
        THEN [fw |-> [f1 EXCEPT !.phase = "done"], threw |-> FALSE]
        ELSE [fw |-> f1, threw |-> FALSE]

FireworkUpdate(fw, dt, d) ==
    LET f0 == [fw EXCEPT !.phaseTime = @ + dt]
    IN  CASE fw.phase = "launch" -> UpdateLaunch(f0, dt, d)
          [] fw.phase = "burst" -> UpdateBurst(f0, dt, d)
          [] fw.phase = "fade" -> UpdateFade(f0, dt)
          [] OTHER -> [fw |-> f0, threw |-> FALSE]

(***************************************************************************)
(* Launcher, LauncherManager.  A launcher is [id, x, enabled, flash];      *)
(* flash is in thousandths.  Every launcher has y = canvasHeight - 20.     *)
(***************************************************************************)
Launcher(id, x) == [id |-> id, x |-> x, enabled |-> TRUE, flash |-> 0]

\* initDefaultLaunchers: five launchers, spacing canvasWidth / 6
DefaultLaunchers == [i \in 1..5 |-> Launcher(i, (CanvasWidth * i) \div 6)]

\* getLauncherById: launchers.find(l => l.id === id); 0 when there is none
LauncherIndex(ls, id) ==
    IF \E i \in 1..Len(ls) : ls[i].id = id
    THEN CHOOSE i \in 1..Len(ls) :
             /\ ls[i].id = id
             /\ \A j \in 1..(i - 1) : ls[j].id # id
    ELSE 0

\* Launcher.getLaunchPosition().y: this.y - 30
LaunchPositionY == (CanvasHeight - 20) - 30

\* Launcher.update(dt): the flash decays by dt * 3, not below 0
LauncherUpdate(l, dt) ==
    IF l.flash > 0 THEN [l EXCEPT !.flash = Max(0, l.flash - 3 * dt)] ELSE l

(***************************************************************************)
(* Show: the event list                                                    *)
(***************************************************************************)
\* what a call leaves in `last` (history): its name, its argument (seek: the
\* time, updateEvent and removeEvent: the id), the clock before and after
\* update's increment (the latter before any wrap or stop), the events update
\* launched in launch order, the live fireworks the call discarded, the phase
\* steps <<before, after>> its firework updates made, whether it ran reset(),
\* whether the call before it was a seek to a time within [0, duration],
\* whether updateEvent or removeEvent found the event it was given, and the
\* number addFinaleWithOptions returned
NoLast(op) ==
    [op |-> op, arg |-> 0, from |-> 0, time |-> 0, launched |-> <<>>,
     dropped |-> 0, trans |-> {}, wrapped |-> FALSE, afterSeek |-> FALSE,
     hit |-> FALSE, returned |-> 0]

\* JavaScript's  data.f || def  for a number and for a string field
NumOr(data, f, def) ==
    IF f \in DOMAIN data /\ data[f] # 0 THEN data[f] ELSE def

StrOr(data, f, def) ==
    IF f \in DOMAIN data /\ data[f] # "" THEN data[f] ELSE def

\* the event addEvent builds from eventData, with the id it is given
NewEvent(data, id) ==
    [id |-> id,
     time |-> NumOr(data, "time", 0),
     launcherId |-> NumOr(data, "launcherId", 1),
     type |-> StrOr(data, "type", "chrysanthemum"),
     primaryColor |-> StrOr(data, "primaryColor", "#ff0000"),
     secondaryColor |-> StrOr(data, "secondaryColor", "#ffaa00"),
     size |-> StrOr(data, "size", "medium"),
     height |-> StrOr(data, "height", "high"),
     trail |-> StrOr(data, "trail", "sparkle"),
     triggered |-> FALSE]

\* Array.prototype.sort with (a, b) => a.time - b.time: a stable sort
RECURSIVE InsertByTime(_, _)
InsertByTime(sorted, e) ==
    IF sorted = <<>> THEN <<e>>
    ELSE IF e.time < Head(sorted).time THEN <<e>> \o sorted
    ELSE <<Head(sorted)>> \o InsertByTime(Tail(sorted), e)

RECURSIVE SortByTime(_)
SortByTime(es) ==
    IF es = <<>> THEN <<>>
    ELSE InsertByTime(SortByTime(SubSeq(es, 1, Len(es) - 1)), es[Len(es)])

\* sortEvents left out
SortEventsSkipped(es) == es

SortEvents(es) == SortByTime(es)

RECURSIVE MaxTimeOf(_)
MaxTimeOf(es) ==
    IF Len(es) = 1 THEN es[1].time
    ELSE Max(es[1].time, MaxTimeOf(Tail(es)))

\* updateDuration without the trailing buffer
UpdateDurationNoBuffer(es) ==
    IF es = <<>> THEN 5000 ELSE MaxTimeOf(es)

\* updateDuration: 5000 when there is no event, else last event time + 5000
UpdateDuration(es) ==
    IF es = <<>> THEN 5000 ELSE MaxTimeOf(es) + 5000

\* a lookup that answers the last index for an id that is not in the list
EventIndexOrLast(es, id) ==
    IF \E i \in 1..Len(es) : es[i].id = id
    THEN CHOOSE i \in 1..Len(es) :
             /\ es[i].id = id
             /\ \A j \in 1..(i - 1) : es[j].id # id
    ELSE Len(es)

\* events.find(e => e.id === id) as an index; 0 when there is none
EventIndex(es, id) ==
    IF \E i \in 1..Len(es) : es[i].id = id
    THEN CHOOSE i \in 1..Len(es) :
             /\ es[i].id = id
             /\ \A j \in 1..(i - 1) : es[j].id # id
    ELSE 0

\* the patch not applied
AssignSkipped(e, updates) == e

\* Object.assign(event, updates)
Assign(e, updates) ==
    [f \in DOMAIN e |-> IF f \in DOMAIN updates THEN updates[f] ELSE e[f]]

RemoveAt(s, i) == SubSeq(s, 1, i - 1) \o SubSeq(s, i + 1, Len(s))

\* the flags left as they are
ClearTriggersSkipped(es) == es

ClearTriggers(es) == [i \in 1..Len(es) |-> [es[i] EXCEPT !.triggered = FALSE]]

\* getEventList: [...this.events].sort(by time)
GetEventList == SortByTime(events)

\* eventData.id || this.generateEventId(): the id given, else a fresh one
HasId(data) == "id" \in DOMAIN data /\ data.id # 0

AddEvent(data) ==
    /\ LET id == IF HasId(data) THEN data.id ELSE evtSeq + 1
           es == SortEvents(Append(events, NewEvent(data, id)))
       IN  /\ events' = es
           /\ duration' = UpdateDuration(es)
    /\ evtSeq' = IF HasId(data) THEN evtSeq ELSE evtSeq + 1
    /\ raised' = FALSE
    /\ last' = NoLast("addEvent")
    /\ UNCHANGED <<activeFireworks, currentTime, isPlaying, playbackSpeed,
                   loop, launchers, nextId>>

UpdateEvent(eventId, updates) ==
    /\ LET i == EventIndex(events, eventId)
       IN  IF i # 0
           THEN LET es == SortEvents([events EXCEPT
                               ![i] = [Assign(events[i], updates)
                                          EXCEPT !.triggered = FALSE]])
                IN  /\ events' = es
                    /\ duration' = UpdateDuration(es)
           ELSE UNCHANGED <<events, duration>>
    /\ raised' = FALSE
    /\ last' = [NoLast("updateEvent") EXCEPT
                    !.arg = eventId, !.hit = (EventIndex(events, eventId) # 0)]
    /\ UNCHANGED <<activeFireworks, currentTime, isPlaying, playbackSpeed,
                   loop, launchers, nextId, evtSeq>>

RemoveEvent(eventId) ==
    /\ LET i == EventIndex(events, eventId)
       IN  IF i # 0
           THEN LET es == RemoveAt(events, i)
                IN  /\ events' = es
                    /\ duration' = UpdateDuration(es)
           ELSE UNCHANGED <<events, duration>>
    /\ raised' = FALSE
    /\ last' = [NoLast("removeEvent") EXCEPT
                    !.arg = eventId, !.hit = (EventIndex(events, eventId) # 0)]
    /\ UNCHANGED <<activeFireworks, currentTime, isPlaying, playbackSpeed,
                   loop, launchers, nextId, evtSeq>>

ClearEvents ==
    /\ events' = <<>>
    /\ activeFireworks' = <<>>
    /\ currentTime' = 0
    /\ duration' = 5000
    /\ raised' = FALSE
    /\ last' = [NoLast("clearEvents") EXCEPT !.dropped = Len(activeFireworks)]
    /\ UNCHANGED <<isPlaying, playbackSpeed, loop, launchers, nextId, evtSeq>>

(***************************************************************************)
(* Show.launchFirework and Show.update                                     *)
(***************************************************************************)
\* the test with a strict comparison
IsDueStrict(e, now) == ~e.triggered /\ now > e.time

\* a due test that leaves out the events whose time passed a second ago
IsDueJustNow(e, now) == ~e.triggered /\ now >= e.time /\ now < e.time + 1000

\* a due test that ignores the trigger flag
IsDueAgain(e, now) == now >= e.time

\* update's test of one event: !event.triggered && currentTime >= event.time
IsDue(e, now) == ~e.triggered /\ now >= e.time

\* unshift in place of push
UnshiftFirework(fws, fw) == <<fw>> \o fws

\* this.activeFireworks.push(firework)
PushFirework(fws, fw) == Append(fws, fw)

\* a launcher test that ignores the enabled flag
LauncherUsableDisabled(ls, id) == LauncherIndex(ls, id) # 0

\* launchFirework: if (!launcher || !launcher.enabled) return, negated
LauncherUsable(ls, id) ==
    LauncherIndex(ls, id) # 0 /\ ls[LauncherIndex(ls, id)].enabled

\* the event loop of update from index i on, stopped by a raised error.
\* st = [events, fws, launchers, launched, threw]
RECURSIVE LaunchDue(_, _, _)
LaunchDue(st, i, now) ==
    IF i > Len(st.events) \/ st.threw THEN st
    ELSE LET e == st.events[i]
             li == LauncherIndex(st.launchers, e.launcherId)
             marked == [st.events EXCEPT ![i].triggered = TRUE]
         IN  IF ~IsDue(e, now)
             THEN LaunchDue(st, i + 1, now)
             ELSE IF ~LauncherUsable(st.launchers, e.launcherId)
             THEN LaunchDue([st EXCEPT !.events = marked], i + 1, now)
             ELSE IF ~FireworkConstructs(e)
             THEN [st EXCEPT !.threw = TRUE]
             ELSE LaunchDue(
                      [st EXCEPT
                          !.events = marked,
                          !.fws = PushFirework(@, FireworkNew(
                                      [eid |-> e.id, launchY |-> LaunchPositionY,
                                       type |-> e.type, size |-> e.size,
                                       height |-> e.height, trail |-> e.trail])),
                          !.launchers = [@ EXCEPT ![li].flash = 1000],
                          !.launched = Append(@, e.id)],
                      i + 1, now)

\* activeFireworks.forEach(fw => fw.update(dt)) from index i on, stopped by
\* a raised error.  st = [fws, trans, threw]
RECURSIVE UpdateFireworks(_, _, _, _)
UpdateFireworks(st, i, dt, ds) ==
    IF i > Len(st.fws) \/ st.threw THEN st
    ELSE LET u == FireworkUpdate(st.fws[i], dt, ds[i])
         IN  UpdateFireworks(
                 [fws |-> [st.fws EXCEPT ![i] = u.fw],
                  trans |-> st.trans \cup {<<st.fws[i].phase, u.fw.phase>>},
                  threw |-> u.threw],
                 i + 1, dt, ds)

\* the filter of update: the fireworks that are not done
Prune(fws) == SelectSeq(fws, LAMBDA fw : fw.phase # "done")

\* the end-of-show check stopping without waiting for the live fireworks
EndOfShowNoWait(now, dur, looping, live) ==
    IF now >= dur
    THEN IF looping THEN "wrap" ELSE "stop"
    ELSE "none"

\* the end-of-show check ignoring the loop flag
EndOfShowNoLoop(now, dur, looping, live) ==
    IF now >= dur
    THEN IF live = <<>> THEN "stop" ELSE "none"
    ELSE "none"

\* a show that never ends
EndOfShowNever(now, dur, looping, live) == "none"

\* the end-of-show check of update, given the clock and the pruned live
\* set: "wrap" (reset), "stop" or "none"
EndOfShow(now, dur, looping, live) ==
    IF now >= dur
    THEN IF looping THEN "wrap"
         ELSE IF live = <<>> THEN "stop" ELSE "none"
    ELSE "none"

\* the early return left out
NotPlayingIgnored(playing) == FALSE

\* update: if (!this.isPlaying) return
NotPlaying(playing) == ~playing

Update(dt, ds) ==
    /\ IF NotPlaying(isPlaying)
       THEN /\ raised' = FALSE
            /\ last' = NoLast("updateIdle")
            /\ UNCHANGED <<events, activeFireworks, currentTime, duration,
                           isPlaying, playbackSpeed, loop, launchers, nextId, evtSeq>>
       ELSE LET now == currentTime + dt * playbackSpeed
                L == LaunchDue([events |-> events, fws |-> activeFireworks,
                                launchers |-> launchers, launched |-> <<>>,
                                threw |-> FALSE], 1, now)
                U == UpdateFireworks([fws |-> L.fws, trans |-> {},
                                      threw |-> FALSE], 1, dt, ds)
                live == Prune(U.fws)
                ls == [i \in 1..Len(L.launchers) |->
                          LauncherUpdate(L.launchers[i], dt)]
                end == EndOfShow(now, duration, loop, live)
                did == [NoLast("update") EXCEPT !.from = currentTime,
                                                !.time = now,
                                                !.launched = L.launched,
                                                !.afterSeek = (last.op = "seek" /\
                                                               last.arg = currentTime)]
            IN  /\ now <= MaxTime
                /\ Len(L.fws) <= MaxLive
                /\ UNCHANGED <<duration, playbackSpeed, loop, nextId, evtSeq>>
                /\ IF L.threw
                   THEN /\ raised' = TRUE
                        /\ currentTime' = now
                        /\ events' = L.events
                        /\ activeFireworks' = L.fws
                        /\ launchers' = L.launchers
                        /\ last' = did
                        /\ UNCHANGED isPlaying
                   ELSE IF U.threw
                   THEN /\ raised' = TRUE
                        /\ currentTime' = now
                        /\ events' = L.events
                        /\ activeFireworks' = U.fws
                        /\ launchers' = L.launchers
                        /\ last' = [did EXCEPT !.trans = U.trans]
                        /\ UNCHANGED isPlaying
                   ELSE /\ raised' = FALSE
                        /\ launchers' = ls
                        /\ currentTime' = IF end = "none" THEN now ELSE 0
                        /\ events' = IF end = "none" THEN L.events
                                     ELSE ClearTriggers(L.events)
                        /\ activeFireworks' = IF end = "none" THEN live ELSE <<>>
                        /\ isPlaying' = (end # "stop")
                        /\ last' = [did EXCEPT
                                      !.trans = U.trans,
                                      !.wrapped = (end = "wrap"),
                                      !.dropped = IF end = "none" THEN 0
                                                  ELSE Len(live)]

\* Show.draw: fw.draw(ctx) for every live firework; no state is written
Draw ==
    /\ raised' = FALSE
    /\ last' = NoLast("draw")
    /\ UNCHANGED <<events, activeFireworks, currentTime, duration, isPlaying,
                   playbackSpeed, loop, launchers, nextId, evtSeq>>

(***************************************************************************)
(* Show: transport                                                         *)
(***************************************************************************)
\* the reset made on every play
PlayResetsAlways(t, d) == TRUE

\* play: if (this.currentTime >= this.duration) this.reset()
PlayResets(t, d) == t >= d

Play ==
    /\ IF PlayResets(currentTime, duration)
       THEN /\ currentTime' = 0
            /\ activeFireworks' = <<>>
            /\ events' = ClearTriggers(events)
            /\ last' = [NoLast("play") EXCEPT !.wrapped = TRUE,
                                              !.dropped = Len(activeFireworks)]
       ELSE /\ UNCHANGED <<currentTime, activeFireworks, events>>
            /\ last' = NoLast("play")
    /\ isPlaying' = TRUE
    /\ raised' = FALSE
    /\ UNCHANGED <<duration, playbackSpeed, loop, launchers, nextId, evtSeq>>

Pause ==
    /\ isPlaying' = FALSE
    /\ raised' = FALSE
    /\ last' = NoLast("pause")
    /\ UNCHANGED <<events, activeFireworks, currentTime, duration,
                   playbackSpeed, loop, launchers, nextId, evtSeq>>

Stop ==
    /\ isPlaying' = FALSE
    /\ currentTime' = 0
    /\ activeFireworks' = <<>>
    /\ events' = ClearTriggers(events)
    /\ raised' = FALSE
    /\ last' = [NoLast("stop") EXCEPT !.dropped = Len(activeFireworks)]
    /\ UNCHANGED <<duration, playbackSpeed, loop, launchers, nextId, evtSeq>>

\* seek's flag with a non-strict comparison
SeekTriggeredInclusive(e, t) == e.time <= t

\* seek's flag for one event: e.triggered = e.time < this.currentTime
SeekTriggered(e, t) == e.time < t

\* Math.max(0, Math.min(time, this.duration))
Clamp(time, dur) == Max(0, Min(time, dur))

Seek(time) ==
    LET t == Clamp(time, duration)
    IN  /\ currentTime' = t
        /\ events' = [i \in 1..Len(events) |->
                         [events[i] EXCEPT !.triggered = SeekTriggered(events[i], t)]]
        /\ activeFireworks' = <<>>
        /\ raised' = FALSE
        /\ last' = [NoLast("seek") EXCEPT !.arg = time,
                                          !.dropped = Len(activeFireworks)]
        /\ UNCHANGED <<duration, isPlaying, playbackSpeed, loop, launchers, nextId,
                       evtSeq>>

SetSpeed(speed) ==
    /\ playbackSpeed' = speed
    /\ raised' = FALSE
    /\ last' = NoLast("setSpeed")
    /\ UNCHANGED <<events, activeFireworks, currentTime, duration, isPlaying,
                   loop, launchers, nextId, evtSeq>>

SetLoop(b) ==
    /\ loop' = b
    /\ raised' = FALSE
    /\ last' = NoLast("setLoop")
    /\ UNCHANGED <<events, activeFireworks, currentTime, duration, isPlaying,
                   playbackSpeed, launchers, nextId, evtSeq>>

\* the weather object as the script creates it
DefaultWeather ==
    [windSpeed |-> 0, windDirection |-> 1, smokeEnabled |-> FALSE,
     smokeDensity |-> 3]

\* the audio object as the script creates it
DefaultAudio == [enabled |-> TRUE, volume |-> 50, crowdEnabled |-> TRUE]

(***************************************************************************)
(* The program after construction (Show constructor, LauncherManager       *)
(* constructor).                                                           *)
(***************************************************************************)
Init ==
    /\ events = <<>>
    /\ activeFireworks = <<>>
    /\ currentTime = 0
    /\ duration = 30000
    /\ isPlaying = FALSE
    /\ playbackSpeed = 1
    /\ loop = FALSE
    /\ launchers = DefaultLaunchers
    /\ nextId = 6
    /\ evtSeq = 0
    /\ raised = FALSE
    /\ last = NoLast("new")
    /\ undoStack = <<>>
    /\ redoStack = <<>>
    /\ weather = DefaultWeather
    /\ audio = DefaultAudio
    /\ freed = {}

(***************************************************************************)
(* Spec: playback.  Events are added and edited and the show is played,    *)
(* paused, stopped, sought and ticked in any order; a tick is one second   *)
(* long or empty.                                                          *)
(***************************************************************************)
Times == {0, 2000}
Dts == {0, 1000}
Speeds == {1, 2}
SeekTimes == {-1000, 1000, 9000}
EventIds == 1..MaxEvents
NoDraw == [r |-> 0, k |-> 0]

EventData == {[time |-> t] : t \in Times}
Patches == {[time |-> t] : t \in Times}

Next ==
    \/ /\ Len(events) < MaxEvents
       /\ \E data \in EventData : AddEvent(data)
       /\ UNCHANGED <<undoStack, redoStack, weather, audio, freed>>
    \/ /\ \E id \in EventIds, up \in Patches : UpdateEvent(id, up)
       /\ UNCHANGED <<undoStack, redoStack, weather, audio, freed>>
    \/ /\ \E dt \in Dts : Update(dt, [i \in 1..MaxLive |-> NoDraw])
       /\ UNCHANGED <<undoStack, redoStack, weather, audio, freed>>
    \/ /\ Play
       /\ UNCHANGED <<undoStack, redoStack, weather, audio, freed>>
    \/ /\ Pause
       /\ UNCHANGED <<undoStack, redoStack, weather, audio, freed>>
    \/ /\ Stop
       /\ UNCHANGED <<undoStack, redoStack, weather, audio, freed>>
    \/ /\ \E t \in SeekTimes : Seek(t)
       /\ UNCHANGED <<undoStack, redoStack, weather, audio, freed>>
    \/ /\ \E s \in Speeds : SetSpeed(s)
       /\ UNCHANGED <<undoStack, redoStack, weather, audio, freed>>
    \/ /\ \E b \in BOOLEAN : SetLoop(b)
       /\ UNCHANGED <<undoStack, redoStack, weather, audio, freed>>

Spec == Init /\ [][Next]_vars

(***************************************************************************)
(* Properties of playback (checked under Spec)                             *)
(***************************************************************************)
EventById(id) == events[EventIndex(events, id)]

IdsOf(seq) == {seq[i] : i \in 1..Len(seq)}

AllLaunchersReady ==
    \A i \in 1..Len(events) :
        LET li == LauncherIndex(launchers, events[i].launcherId)
        IN  li # 0 /\ launchers[li].enabled

\* an update made while playing, right after a seek to a time within
\* [0, duration], with every event's launcher present and enabled
UpdateAfterSeek ==
    /\ last.op = "update"
    /\ last.afterSeek
    /\ ~raised
    /\ playbackSpeed > 0
    /\ AllLaunchersReady

\* C2 as stated: seek(t) then update(eps) launches exactly the events with
\* time in the half-open interval [t, t + eps * speed * 1000)
C2_HalfOpenInterval ==
    UpdateAfterSeek =>
        IdsOf(last.launched) =
            {events[i].id : i \in {j \in 1..Len(events) :
                /\ last.from <= events[j].time
                /\ events[j].time < last.time}}

\* C2 amended: seek(t) then update(eps) launches exactly the events with
\* time in the closed interval [t, t + eps * speed * 1000]
C2_ClosedInterval ==
    UpdateAfterSeek =>
        IdsOf(last.launched) =
            {events[i].id : i \in {j \in 1..Len(events) :
                /\ last.from <= events[j].time
                /\ events[j].time <= last.time}}

\* C2 witness: a tick after a seek launched an event lying exactly on the
\* upper end of the interval and left an earlier event alone
C2_Witness ==
    /\ UpdateAfterSeek
    /\ last.time > last.from
    /\ \E i \in 1..Len(events) :
           events[i].time = last.time /\ events[i].id \in IdsOf(last.launched)
    /\ \E i \in 1..Len(events) : events[i].time < last.from

\* C5: with loop off, update stops the show only at a tick that reached the
\* end with no firework left after pruning; a tick that leaves a firework
\* live keeps the show playing and discards no live firework
C5_StopOnlyWhenDrained ==
    (last.op = "update" /\ ~loop /\ ~raised) =>
        /\ last.dropped = 0
        /\ ~isPlaying => (last.time >= duration /\ activeFireworks = <<>>)
        /\ activeFireworks # <<>> => isPlaying

\* C5 witness: the clock is past the end, a firework is still live and the
\* show is still playing
C5_Witness ==
    /\ last.op = "update" /\ ~loop /\ ~raised
    /\ last.time >= duration
    /\ activeFireworks # <<>>
    /\ isPlaying

\* C6: with loop on, an update whose clock reaches the duration wraps (clock
\* 0, every flag cleared, still playing), an update whose clock does not
\* reach it does not wrap, and no update stops the show
C6_LoopWraps ==
    (last.op = "update" /\ loop /\ ~raised) =>
        /\ isPlaying
        /\ last.wrapped <=> (last.time >= duration)
        /\ last.wrapped =>
              /\ currentTime = 0
              /\ \A i \in 1..Len(events) : ~events[i].triggered

\* C6 witness: a wrap that found triggered events and a live firework
C6_Witness ==
    /\ last.op = "update" /\ loop /\ last.wrapped
    /\ last.dropped > 0
    /\ events # <<>>

\* the events whose flag this step clears (present and triggered before,
\* present and not triggered after)
FlagCleared ==
    {events[i].id : i \in {j \in 1..Len(events) :
        /\ events[j].triggered
        /\ EventIndex(events', events[j].id) # 0
        /\ ~events'[EventIndex(events', events[j].id)].triggered}}

\* what seek(t) leaves: the clock at t clamped into [0, duration], every
\* flag equal to (time < clock), no live firework
SeekPost ==
    last.op = "seek" =>
        /\ currentTime = Max(0, Min(last.arg, duration))
        /\ \A i \in 1..Len(events) :
               events[i].triggered <=> (events[i].time < currentTime)
        /\ activeFireworks = <<>>

\* update launches no event whose flag was set before the call
LaunchesOnlyUntriggered ==
    last'.op = "update" =>
        \A id \in IdsOf(last'.launched) : ~EventById(id).triggered

C8_StopResets ==
    [][last'.op = "stop" =>
          /\ ~isPlaying'
          /\ currentTime' = 0
          /\ activeFireworks' = <<>>
          /\ Len(events') = Len(events)
          /\ \A i \in 1..Len(events) :
                 events'[i] = [events[i] EXCEPT !.triggered = FALSE]
          /\ duration' = duration]_vars

\* C8 witness: a stop that found the show waiting at its end with a live
\* firework and a triggered event
C8_Witness ==
    /\ last.op = "stop"
    /\ last.dropped > 0
    /\ events # <<>>
    /\ ~isPlaying

\* positions in the event list of the events a tick launched, in launch order
LaunchedAt == [k \in 1..Len(last.launched) |-> EventIndex(events, last.launched[k])]

\* the tick's launches are in list order and in non-decreasing time order,
\* and the live set ends with their fireworks in that order
LaunchedInListOrder ==
    /\ \A k \in 1..(Len(last.launched) - 1) :
           /\ LaunchedAt[k] < LaunchedAt[k + 1]
           /\ events[LaunchedAt[k]].time <= events[LaunchedAt[k + 1]].time
    /\ (isPlaying /\ ~last.wrapped) =>
           /\ Len(activeFireworks) >= Len(last.launched)
           /\ \A k \in 1..Len(last.launched) :
                  activeFireworks[Len(activeFireworks) - Len(last.launched) + k].eid
                      = last.launched[k]

\* C9 as stated: ..., and events with equal time are launched in the order
\* in which they were inserted (ids are handed out in insertion order)
C9_InsertionOrder ==
    (last.op = "update" /\ ~raised) =>
        /\ LaunchedInListOrder
        /\ \A k \in 1..(Len(last.launched) - 1) :
               events[LaunchedAt[k]].time = events[LaunchedAt[k + 1]].time
                   => last.launched[k] < last.launched[k + 1]

\* C9 amended: within one update the due events are launched in
\* non-decreasing time order, events with equal time in list order, and the
\* live set receives the new fireworks in that order
C9_ListOrder ==
    (last.op = "update" /\ ~raised) => LaunchedInListOrder

\* C9 witness: one tick launched two events of equal time, the later
\* inserted one first
C9_Witness ==
    /\ last.op = "update" /\ ~raised
    /\ Len(last.launched) = 2
    /\ events[LaunchedAt[1]].time = events[LaunchedAt[2]].time
    /\ last.launched[1] > last.launched[2]
    /\ Len(activeFireworks) >= 2

(***************************************************************************)
(* SpecEdit: editing.  Events are added, re-timed, removed and cleared in  *)
(* any order, with ids that are in the list and ids that are not.          *)
(***************************************************************************)
EditTimes == {0, 500, 1000}
EditIds == 1..MaxAdds
EditData == {[time |-> t] : t \in EditTimes}
EditPatches == {[time |-> t] : t \in EditTimes}

NextEdit ==
    \/ /\ Len(events) < MaxListed
       /\ evtSeq < MaxAdds
       /\ \E data \in EditData : AddEvent(data)
       /\ UNCHANGED <<undoStack, redoStack, weather, audio, freed>>
    \/ /\ \E id \in EditIds, up \in EditPatches : UpdateEvent(id, up)
       /\ UNCHANGED <<undoStack, redoStack, weather, audio, freed>>
    \/ /\ \E id \in EditIds : RemoveEvent(id)
       /\ UNCHANGED <<undoStack, redoStack, weather, audio, freed>>
    \/ /\ ClearEvents
       /\ UNCHANGED <<undoStack, redoStack, weather, audio, freed>>

SpecEdit == Init /\ [][NextEdit]_vars

Sorted(es) == \A i \in 1..(Len(es) - 1) : es[i].time <= es[i + 1].time

\* C3: after any sequence of addEvent, updateEvent and removeEvent calls the
\* stored event list is in non-decreasing order of time, and getEventList()
\* returns the same events in non-decreasing order of time
C3_SortedByTime ==
    /\ Sorted(events)
    /\ Sorted(GetEventList)
    /\ Len(GetEventList) = Len(events)
    /\ IdsOf(GetEventList) = IdsOf(events)

\* C3 witness: updateEvent re-timed the first event of a full list and the
\* sort moved it behind the two others
C3_Witness ==
    /\ last.op = "updateEvent"
    /\ last.hit
    /\ Len(events) = 3
    /\ events[3].id = last.arg
    /\ events[3].id < events[1].id
    /\ events[3].id < events[2].id

\* the duration covers every event by 5000 ms, and is 5000 ms when there is
\* no event
DurationFits ==
    IF events = <<>> THEN duration = 5000
    ELSE \A i \in 1..Len(events) : duration >= events[i].time + 5000

\* C4 as stated: after every addEvent, updateEvent, removeEvent or
\* clearEvents call the duration fits the event list
C4_AfterEveryCall ==
    last.op \in {"addEvent", "updateEvent", "removeEvent", "clearEvents"}
        => DurationFits

\* C4 amended: after every addEvent or clearEvents call, and after every
\* updateEvent or removeEvent call whose id is in the list, the duration
\* fits the event list
C4_AfterEveryChange ==
    (\/ last.op \in {"addEvent", "clearEvents"}
     \/ last.op \in {"updateEvent", "removeEvent"} /\ last.hit)
        => DurationFits

\* C4 witness: removeEvent removed the last event of the list and the
\* duration fell to the floor
C4_Witness ==
    /\ last.op = "removeEvent"
    /\ last.hit
    /\ events = <<>>
    /\ duration = 5000

(***************************************************************************)
(* SpecFirework: one firework of every type, size, height and trail is     *)
(* launched at time 0 of a show started from rest and followed through     *)
(* its phases in ticks of 100 ms, with every draw of its random numbers.   *)
(***************************************************************************)
FireDts == {100}

FireworkData ==
    {[type |-> ty, size |-> sz, height |-> h, trail |-> tr] :
        ty \in DOMAIN FIREWORK_TYPES, sz \in DOMAIN SIZE_MULTIPLIERS,
        h \in DOMAIN HEIGHT_CONFIGS, tr \in DOMAIN TRAIL_CONFIGS}

NextFirework ==
    \/ /\ events = <<>>
       /\ \E data \in FireworkData : AddEvent(data)
       /\ UNCHANGED <<undoStack, redoStack, weather, audio, freed>>
    \/ /\ events # <<>>
       /\ Play
       /\ UNCHANGED <<undoStack, redoStack, weather, audio, freed>>
    \/ /\ \E dt \in FireDts, d \in Draws : Update(dt, [i \in 1..MaxLive |-> d])
       /\ UNCHANGED <<undoStack, redoStack, weather, audio, freed>>

SpecFirework == Init /\ [][NextFirework]_vars

PhaseSteps ==
    {<<"launch", "launch">>, <<"launch", "burst">>, <<"burst", "burst">>,
     <<"burst", "fade">>, <<"fade", "fade">>, <<"fade", "done">>}

\* C10: every update moves a firework along launch -> burst -> fade -> done
\* by at most one phase, never backward and never past a phase; a firework
\* that is done stays done; and a firework in its launch phase has no
\* particles (they are made by the one launch -> burst step)
C10_LinearPhases ==
    /\ last.trans \subseteq PhaseSteps
    /\ \A i \in 1..Len(activeFireworks) :
           LET fw == activeFireworks[i]
               done == [fw EXCEPT !.phase = "done"]
           IN  /\ fw.phase \in {"launch", "burst", "fade"}
               /\ fw.phase = "launch" => fw.particles = <<>>
               /\ fw.phase = "burst" => fw.particles # <<>>
               /\ \A dt \in FireDts, d \in Draws :
                      FireworkUpdate(done, dt, d).fw.phase = "done"

\* C10 witness: a firework that split in its burst phase took its last
\* step, from fade to done
C10_Witness ==
    /\ last.op = "update"
    /\ <<"fade", "done">> \in last.trans
    /\ activeFireworks = <<>>
    /\ events # <<>>
    /\ events[1].type = "crossette"

(***************************************************************************)
(* SpecInvalid: events whose type, size, height or trail is no known enum  *)
(* value, or whose launcher does not exist, are added and edited and the   *)
(* show is played.                                                         *)
(***************************************************************************)
AnyTypes == {"chrysanthemum", "sparkler"}
AnySizes == {"medium", "huge"}
AnyHeights == {"high", "extreme"}
AnyTrails == {"sparkle", "glitter"}
AnyLaunchers == {1, 9}

InvalidData ==
    {[launcherId |-> l, type |-> ty, size |-> sz, height |-> h, trail |-> tr] :
        l \in AnyLaunchers, ty \in AnyTypes, sz \in AnySizes,
        h \in AnyHeights, tr \in AnyTrails}

InvalidPatches ==
    {[type |-> ty] : ty \in AnyTypes} \cup {[height |-> h] : h \in AnyHeights}

NextInvalid ==
    \/ /\ events = <<>>
       /\ \E data \in InvalidData : AddEvent(data)
       /\ UNCHANGED <<undoStack, redoStack, weather, audio, freed>>
    \/ /\ \E up \in InvalidPatches : UpdateEvent(1, up)
       /\ UNCHANGED <<undoStack, redoStack, weather, audio, freed>>
    \/ /\ Play
       /\ UNCHANGED <<undoStack, redoStack, weather, audio, freed>>
    \/ /\ \E dt \in Dts : Update(dt, [i \in 1..MaxLive |-> NoDraw])
       /\ UNCHANGED <<undoStack, redoStack, weather, audio, freed>>
    \/ /\ Draw
       /\ UNCHANGED <<undoStack, redoStack, weather, audio, freed>>

SpecInvalid == Init /\ [][NextInvalid]_vars

\* C1: for every event list reachable through addEvent and updateEvent,
\* including events with unknown enum values or a missing launcher,
\* Show.update and Show.draw complete without raising an error
C1_NeverRaises ==
    last.op \in {"update", "draw"} => ~raised

(***************************************************************************)
(* SpecLaunch: one firework of every height is launched at time 0 and      *)
(* ticked with steps of 100 ms, 1 s and 3 s in any mix.                    *)
(***************************************************************************)
LaunchDts == {100, 1000, 3000}

LaunchData == {[height |-> h] : h \in DOMAIN HEIGHT_CONFIGS}

NextLaunch ==
    \/ /\ events = <<>>
       /\ \E data \in LaunchData : AddEvent(data)
       /\ UNCHANGED <<undoStack, redoStack, weather, audio, freed>>
    \/ /\ events # <<>>
       /\ Play
       /\ UNCHANGED <<undoStack, redoStack, weather, audio, freed>>
    \/ /\ \E dt \in LaunchDts : Update(dt, [i \in 1..MaxLive |-> NoDraw])
       /\ UNCHANGED <<undoStack, redoStack, weather, audio, freed>>

SpecLaunch == Init /\ [][NextLaunch]_vars

\* the height setting of the event a firework was launched for
HeightOf(fw) == EventById(fw.eid).height

\* the rocket is at or above the burst altitude (y grows downward)
AtBurstAltitude(fw) == fw.rocketY <= fw.burstY * Micro

\* C11 as stated: a firework is past its launch phase only with its rocket
\* at or above the burst altitude of its height setting
C11_BurstOnlyAtAltitude ==
    \A i \in 1..Len(activeFireworks) :
        activeFireworks[i].phase # "launch" => AtBurstAltitude(activeFireworks[i])

\* C11 amended: a firework leaves its launch phase at the first tick where
\* its rocket is at or above the burst altitude or no longer rising: after
\* every tick a firework still in launch is below the altitude and rising,
\* and a firework past launch was at the altitude or at its apex when it
\* burst
C11_BurstAtAltitudeOrApex ==
    \A i \in 1..Len(activeFireworks) :
        LET fw == activeFireworks[i]
        IN  /\ fw.burstY = HEIGHT_CONFIGS[HeightOf(fw)].burstY
            /\ fw.phase = "launch" => (~AtBurstAltitude(fw) /\ fw.rocketVy < 0)
            /\ fw.phase # "launch" => (AtBurstAltitude(fw) \/ fw.rocketVy >= 0)

\* C11 witness: a low firework has just burst at the altitude, still rising
C11_Witness ==
    /\ last.op = "update"
    /\ <<"launch", "burst">> \in last.trans
    /\ Len(activeFireworks) = 1
    /\ HeightOf(activeFireworks[1]) = "low"
    /\ AtBurstAltitude(activeFireworks[1])
    /\ activeFireworks[1].rocketVy < 0

(***************************************************************************)
(* Properties of one firework's sub-effects (checked under SpecFirework)   *)
(***************************************************************************)
\* particles were pushed to the firework in the call that left it as fw
\* (a pushed particle has age 0; every other one has aged by the tick)
HasNewParticles(fw) == \E k \in 1..Len(fw.particles) : fw.particles[k].age = 0

\* one firework across one update: before as fw, after as nw, the tick dt ms
SubEffectsOnce(fw, nw, dt) ==
    LET cfg == FIREWORK_TYPES[fw.type]
        secondary == ~fw.secondaryBurstTriggered /\ nw.secondaryBurstTriggered
        split == ~fw.splitTriggered /\ nw.splitTriggered
    IN  /\ fw.secondaryBurstTriggered => nw.secondaryBurstTriggered
        /\ fw.splitTriggered => nw.splitTriggered
        /\ secondary => /\ fw.phase = "burst"
                        /\ cfg.hasSecondaryBurst
                        /\ fw.phaseTime + dt >= cfg.secondaryDelay
        /\ split => /\ fw.phase = "burst"
                    /\ cfg.hasSplit
                    /\ fw.phaseTime + dt >= cfg.splitDelay
        /\ HasNewParticles(nw) =>
               \/ fw.phase = "launch" /\ nw.phase = "burst"
               \/ fw.phase = "burst" /\ (secondary \/ split)

\* C12: over a firework's life the secondary burst and the crossette split
\* are each triggered at most once (the flag is set by the one triggering
\* tick and stays set, and no other tick pushes particles), only in the
\* burst phase and only when the burst-phase time has reached the delay
C12_SubEffectsOnce ==
    [][last'.op = "update" =>
          \A i \in 1..Len(activeFireworks) :
              (i <= Len(activeFireworks') /\
               activeFireworks'[i].eid = activeFireworks[i].eid)
                  => SubEffectsOnce(activeFireworks[i], activeFireworks'[i],
                                    last'.time - last'.from)]_vars

\* C12 witness: the tick at which a crossette firework split, 400 ms into
\* its burst phase
C12_Witness ==
    /\ last.op = "update"
    /\ Len(activeFireworks) = 1
    /\ activeFireworks[1].type = "crossette"
    /\ activeFireworks[1].phase = "burst"
    /\ activeFireworks[1].splitTriggered
    /\ activeFireworks[1].phaseTime = 400
    /\ HasNewParticles(activeFireworks[1])

(***************************************************************************)
(* Properties of invalid event data (checked under SpecInvalid)            *)
(***************************************************************************)
\* C13: an event whose type, size or height is no known enum value is no
\* failure: update does not raise, and the firework it launches has one of
\* the known types and sizes and the burst altitude of a known height
C13_FallbackDescriptor ==
    last.op = "update" =>
        /\ ~raised
        /\ \A i \in 1..Len(activeFireworks) :
               /\ activeFireworks[i].type \in DOMAIN FIREWORK_TYPES
               /\ activeFireworks[i].size \in DOMAIN SIZE_MULTIPLIERS
               /\ \E h \in DOMAIN HEIGHT_CONFIGS :
                      activeFireworks[i].burstY = HEIGHT_CONFIGS[h].burstY

(***************************************************************************)
(* SpecIngest: events are added with and without an id of the caller's     *)
(* and with negative, zero and positive times, and are re-timed, renamed   *)
(* and removed.                                                            *)
(***************************************************************************)
IngestTimes == {-500, 0, 500}
CallerIds == {101, 102}
IngestIds == (1..MaxAdds) \cup CallerIds

IngestData ==
    {[time |-> t] : t \in IngestTimes} \cup
    {[time |-> t, id |-> i] : t \in IngestTimes, i \in CallerIds}

IngestPatches ==
    {[time |-> t] : t \in IngestTimes} \cup {[id |-> i] : i \in CallerIds}

NextIngest ==
    \/ /\ Len(events) < MaxEvents
       /\ evtSeq < MaxAdds
       /\ \E data \in IngestData : AddEvent(data)
       /\ UNCHANGED <<undoStack, redoStack, weather, audio, freed>>
    \/ /\ \E id \in IngestIds, up \in IngestPatches : UpdateEvent(id, up)
       /\ UNCHANGED <<undoStack, redoStack, weather, audio, freed>>
    \/ /\ \E id \in IngestIds : RemoveEvent(id)
       /\ UNCHANGED <<undoStack, redoStack, weather, audio, freed>>

SpecIngest == Init /\ [][NextIngest]_vars

\* C14: every stored event has time >= 0
C14_NoNegativeTime ==
    \A i \in 1..Len(events) : events[i].time >= 0

\* C15: no two events of the list share an id, and after updateEvent(id,
\* patch) found its event the list still holds an event with that id
C15_UniqueStableIds ==
    /\ \A i, j \in 1..Len(events) : events[i].id = events[j].id => i = j
    /\ (last.op = "updateEvent" /\ last.hit) => EventIndex(events, last.arg) # 0

(***************************************************************************)
(* LauncherManager: addLauncher, removeLauncher, dragging, loadFromData,   *)
(* toJSON                                                                  *)
(***************************************************************************)
maxLaunchers == 10
minLaunchers == 1

\* Math.max(30, Math.min(this.canvasWidth - 30, x))
ClampX(x) == Max(30, Min(CanvasWidth - 30, x))

\* addLauncher without its capacity check
AddLauncherUnbounded(arg) ==
    LET x == IF "x" \in DOMAIN arg THEN arg.x ELSE CanvasWidth \div 2
    IN  /\ launchers' = Append(launchers, Launcher(nextId, ClampX(x)))
        /\ nextId' = nextId + 1
        /\ raised' = FALSE
        /\ last' = [NoLast("addLauncher") EXCEPT !.hit = TRUE]
        /\ UNCHANGED <<events, activeFireworks, currentTime, duration,
                       isPlaying, playbackSpeed, loop, evtSeq>>

\* addLauncher without this.nextId++
AddLauncherSameId(arg) ==
    LET full == Len(launchers) >= maxLaunchers
        x == IF "x" \in DOMAIN arg THEN arg.x ELSE CanvasWidth \div 2
    IN  /\ IF full
           THEN UNCHANGED <<launchers, nextId>>
           ELSE /\ launchers' = Append(launchers, Launcher(nextId, ClampX(x)))
                /\ nextId' = nextId
        /\ raised' = FALSE
        /\ last' = [NoLast("addLauncher") EXCEPT !.hit = ~full]
        /\ UNCHANGED <<events, activeFireworks, currentTime, duration,
                       isPlaying, playbackSpeed, loop, evtSeq>>

\* addLauncher(x): arg is [x |-> x], or the empty record for x = null
AddLauncher(arg) ==
    LET full == Len(launchers) >= maxLaunchers
        x == IF "x" \in DOMAIN arg THEN arg.x ELSE CanvasWidth \div 2
    IN  /\ IF full
           THEN UNCHANGED <<launchers, nextId>>
           ELSE /\ launchers' = Append(launchers, Launcher(nextId, ClampX(x)))
                /\ nextId' = nextId + 1
        /\ raised' = FALSE
        /\ last' = [NoLast("addLauncher") EXCEPT !.hit = ~full]
        /\ UNCHANGED <<events, activeFireworks, currentTime, duration,
                       isPlaying, playbackSpeed, loop, evtSeq>>

RemoveLauncher(id) ==
    LET i == LauncherIndex(launchers, id)
        done == Len(launchers) > minLaunchers /\ i # 0
    IN  /\ launchers' = IF done THEN RemoveAt(launchers, i) ELSE launchers
        /\ raised' = FALSE
        /\ last' = [NoLast("removeLauncher") EXCEPT !.arg = id, !.hit = done]
        /\ UNCHANGED <<events, activeFireworks, currentTime, duration,
                       isPlaying, playbackSpeed, loop, nextId, evtSeq>>

\* startDrag(launcher), updateDrag(x), endDrag() on the launcher with this id
MoveLauncher(id, x) ==
    LET i == LauncherIndex(launchers, id)
    IN  /\ launchers' = IF i # 0 THEN [launchers EXCEPT ![i].x = ClampX(x)]
                        ELSE launchers
        /\ raised' = FALSE
        /\ last' = [NoLast("moveLauncher") EXCEPT !.arg = id, !.hit = (i # 0)]
        /\ UNCHANGED <<events, activeFireworks, currentTime, duration,
                       isPlaying, playbackSpeed, loop, nextId, evtSeq>>

\* JavaScript's  data.f || false
BoolOr(data, f) == f \in DOMAIN data /\ data[f]

\* getWeatherSettings
GetWeatherSettings ==
    [windSpeed |-> weather.windSpeed,
     windDirection |-> IF weather.windDirection = 1 THEN "right" ELSE "left",
     smokeEnabled |-> weather.smokeEnabled,
     smokeDensity |-> weather.smokeDensity]

\* loadWeatherSettings(settings)
LoadWeatherSettings(settings) ==
    [windSpeed |-> NumOr(settings, "windSpeed", 0),
     windDirection |-> IF "windDirection" \in DOMAIN settings /\
                          settings.windDirection = "left" THEN -1 ELSE 1,
     smokeEnabled |-> BoolOr(settings, "smokeEnabled"),
     smokeDensity |-> NumOr(settings, "smokeDensity", 3)]

\* getAudioSettings
GetAudioSettings ==
    [enabled |-> audio.enabled, volume |-> audio.volume,
     crowdEnabled |-> audio.crowdEnabled]

\* loadAudioSettings(settings): each field, or its default when undefined
LoadAudioSettings(settings) ==
    [f \in DOMAIN DefaultAudio |->
        IF f \in DOMAIN settings THEN settings[f] ELSE DefaultAudio[f]]

\* LauncherManager.toJSON
LaunchersToJSON(ls) ==
    [i \in 1..Len(ls) |-> [id |-> ls[i].id, x |-> ls[i].x, enabled |-> ls[i].enabled]]

\* the forEach of loadFromData from the state st = [launchers, nextId]
RECURSIVE LoadLaunchers(_, _)
LoadLaunchers(data, st) ==
    IF data = <<>> THEN st
    ELSE LET d == Head(data)
             l == [Launcher(d.id, d.x) EXCEPT
                      !.enabled = ~("enabled" \in DOMAIN d /\ d.enabled = FALSE)]
         IN  LoadLaunchers(Tail(data),
                 [launchers |-> Append(st.launchers, l),
                  nextId |-> IF d.id >= st.nextId THEN d.id + 1 ELSE st.nextId])

\* loadFromData(launcherData), launcherData an array
LoadFromData(data) ==
    LET st == LoadLaunchers(data, [launchers |-> <<>>, nextId |-> 1])
    IN  IF st.launchers = <<>>
        THEN [launchers |-> DefaultLaunchers, nextId |-> 6]
        ELSE st

(***************************************************************************)
(* Show.toJSON, Show.fromJSON                                              *)
(***************************************************************************)
SavedFields ==
    {"id", "time", "launcherId", "type", "primaryColor", "secondaryColor",
     "size", "height", "trail"}

\* an event saved without its launcher
EventToJSONNoLauncher(e) == [f \in SavedFields \ {"launcherId"} |-> e[f]]

EventToJSON(e) == [f \in SavedFields |-> e[f]]

ToJSON ==
    [settings |-> [duration |-> duration],
     weather |-> GetWeatherSettings,
     audio |-> GetAudioSettings,
     launchers |-> LaunchersToJSON(launchers),
     events |-> [i \in 1..Len(events) |-> EventToJSON(events[i])]]

\* data.events.forEach(eventData => this.addEvent(eventData)) from the
\* state st = [events, evtSeq]
RECURSIVE LoadEvents(_, _)
LoadEvents(data, st) ==
    IF data = <<>> THEN st
    ELSE LET d == Head(data)
             id == IF HasId(d) THEN d.id ELSE st.evtSeq + 1
         IN  LoadEvents(Tail(data),
                 [events |-> SortEvents(Append(st.events, NewEvent(d, id))),
                  evtSeq |-> IF HasId(d) THEN st.evtSeq ELSE st.evtSeq + 1])

\* fromJSON(data), data a document; `last` names the call roundTrip when the
\* document is the show's own toJSON(), and last.arg is the document
FromJSON(data) ==
    LET dur == IF "settings" \in DOMAIN data
               THEN NumOr(data.settings, "duration", 30000)
               ELSE duration
        L == IF "launchers" \in DOMAIN data
             THEN LoadFromData(data.launchers)
             ELSE [launchers |-> launchers, nextId |-> nextId]
        E == IF "events" \in DOMAIN data
             THEN LoadEvents(data.events, [events |-> <<>>, evtSeq |-> evtSeq])
             ELSE [events |-> <<>>, evtSeq |-> evtSeq]
    IN  /\ weather' = IF "weather" \in DOMAIN data
                      THEN LoadWeatherSettings(data.weather) ELSE weather
        /\ audio' = IF "audio" \in DOMAIN data
                    THEN LoadAudioSettings(data.audio) ELSE audio
        /\ launchers' = L.launchers
        /\ nextId' = L.nextId
        /\ events' = ClearTriggers(E.events)
        /\ evtSeq' = E.evtSeq
        /\ duration' = IF E.events = <<>> THEN dur ELSE UpdateDuration(E.events)
        /\ currentTime' = 0
        /\ activeFireworks' = <<>>
        /\ raised' = FALSE
        /\ last' = [NoLast(IF data = ToJSON THEN "roundTrip" ELSE "fromJSON")
                       EXCEPT !.arg = data, !.dropped = Len(activeFireworks)]
        /\ UNCHANGED <<isPlaying, playbackSpeed, loop>>

(***************************************************************************)
(* SpecSave: events are added, re-timed and removed, launchers are added,  *)
(* removed and dragged, flags are set by seeking, documents are loaded,    *)
(* and the show is saved and loaded back.                                  *)
(***************************************************************************)
MaxLauncherId == 6    \* addLauncher is not called beyond this nextId

SaveTimes == {0, 500}
SaveData == {[time |-> t, launcherId |-> 6] : t \in SaveTimes}
SavePatches == {[time |-> t] : t \in SaveTimes}
SaveIds == 1..MaxEvents
MoveIds == {1, 6}
MoveXs == {450}

\* documents: one with a disabled launcher and an event, one without
\* settings and launchers
Docs ==
    {[settings |-> [duration |-> 8000],
      launchers |-> <<[id |-> 2, x |-> 200, enabled |-> FALSE],
                      [id |-> 1, x |-> 700, enabled |-> TRUE]>>,
      events |-> <<[id |-> 1, time |-> 500, launcherId |-> 2]>>],
     [events |-> <<>>]}

NextSave ==
    \/ /\ Len(events) < MaxEvents
       /\ evtSeq < MaxEvents
       /\ \E data \in SaveData : AddEvent(data)
       /\ UNCHANGED <<undoStack, redoStack, weather, audio, freed>>
    \/ /\ \E id \in SaveIds, up \in SavePatches : UpdateEvent(id, up)
       /\ UNCHANGED <<undoStack, redoStack, weather, audio, freed>>
    \/ /\ \E id \in SaveIds : RemoveEvent(id)
       /\ UNCHANGED <<undoStack, redoStack, weather, audio, freed>>
    \/ /\ nextId <= MaxLauncherId
       /\ \E arg \in {[x |-> 0], <<>>} : AddLauncher(arg)
       /\ UNCHANGED <<undoStack, redoStack, weather, audio, freed>>
    \/ /\ \E id \in MoveIds : RemoveLauncher(id)
       /\ UNCHANGED <<undoStack, redoStack, weather, audio, freed>>
    \/ /\ \E id \in MoveIds, x \in MoveXs : MoveLauncher(id, x)
       /\ UNCHANGED <<undoStack, redoStack, weather, audio, freed>>
    \/ /\ Seek(250)
       /\ UNCHANGED <<undoStack, redoStack, weather, audio, freed>>
    \/ /\ \E doc \in Docs : FromJSON(doc)
       /\ UNCHANGED <<undoStack, redoStack, freed>>
    \/ /\ FromJSON(ToJSON)
       /\ UNCHANGED <<undoStack, redoStack, freed>>

SpecSave == Init /\ [][NextSave]_vars

\* two event lists equal in order and in every field except triggered
SameEvents(es, fs) ==
    /\ Len(es) = Len(fs)
    /\ \A i \in 1..Len(es) :
           /\ DOMAIN es[i] = DOMAIN fs[i]
           /\ \A f \in DOMAIN es[i] \ {"triggered"} : es[i][f] = fs[i][f]

\* two launcher lists with the same ids, x positions and enabled flags
SameLaunchers(ls, ms) ==
    /\ Len(ls) = Len(ms)
    /\ \A i \in 1..Len(ls) :
           /\ ls[i].id = ms[i].id
           /\ ls[i].x = ms[i].x
           /\ ls[i].enabled = ms[i].enabled

RetimeSeeks == {250, 750}

NextRetime ==
    \/ /\ Len(events) < MaxListed
       /\ evtSeq < MaxListed
       /\ \E data \in EditData : AddEvent(data)
       /\ UNCHANGED <<undoStack, redoStack, weather, audio, freed>>
    \/ /\ \E id \in EditIds, up \in EditPatches : UpdateEvent(id, up)
       /\ UNCHANGED <<undoStack, redoStack, weather, audio, freed>>
    \/ /\ \E id \in EditIds : RemoveEvent(id)
       /\ UNCHANGED <<undoStack, redoStack, weather, audio, freed>>
    \/ /\ \E t \in RetimeSeeks : Seek(t)
       /\ UNCHANGED <<undoStack, redoStack, weather, audio, freed>>
    \/ /\ Play
       /\ UNCHANGED <<undoStack, redoStack, weather, audio, freed>>
    \/ /\ Pause
       /\ UNCHANGED <<undoStack, redoStack, weather, audio, freed>>

SpecRetime == Init /\ [][NextRetime]_vars

\* C17: updateEvent(id, {time: T}) on an event of the list leaves the list
\* sorted by time, holding that event with time T, its triggered flag
\* false, and the other events as they were and in the order they were
C17_RetimePlacesEvent ==
    [][\A id \in EditIds, T \in EditTimes :
          (EventIndex(events, id) # 0 /\ UpdateEvent(id, [time |-> T])) =>
              LET i == EventIndex(events, id)
                  j == EventIndex(events', id)
              IN  /\ Sorted(events')
                  /\ j # 0
                  /\ events'[j] = [events[i] EXCEPT !.time = T,
                                                    !.triggered = FALSE]
                  /\ RemoveAt(events', j) = RemoveAt(events, i)]_vars

\* C17 witness: while the show is playing at 750 ms, updateEvent has put an
\* event at 500 ms between a triggered earlier event and a later one, with
\* its flag false
C17_Witness ==
    /\ last.op = "updateEvent"
    /\ last.hit
    /\ isPlaying
    /\ currentTime = 750
    /\ Len(events) = 3
    /\ events[2].id = last.arg
    /\ events[2].time = 500
    /\ ~events[2].triggered
    /\ events[1].triggered
    /\ events[3].time = 1000

(***************************************************************************)
(* Properties of play and of update while not playing, under Spec          *)
(***************************************************************************)
\* C18: play always leaves isPlaying true; called with currentTime >=
\* duration it puts the clock at 0, clears every trigger flag and drops the
\* live fireworks; called earlier it leaves the clock, the events with
\* their flags and the live fireworks as they were, so pause followed by
\* play resumes where the show was
C18_PlayResumes ==
    [][last'.op = "play" =>
          /\ isPlaying'
          /\ IF currentTime >= duration
             THEN /\ currentTime' = 0
                  /\ activeFireworks' = <<>>
                  /\ \A i \in 1..Len(events') : ~events'[i].triggered
                  /\ events' = ClearTriggers(events)
             ELSE UNCHANGED <<currentTime, events, activeFireworks>>]_vars

\* C18 witness: play has resumed a show in the middle, with a triggered
\* event and a live firework kept
C18_Witness ==
    /\ last.op = "play"
    /\ isPlaying
    /\ currentTime > 0
    /\ currentTime < duration
    /\ activeFireworks # <<>>
    /\ \E i \in 1..Len(events) : events[i].triggered

\* C19: update on a show that is not playing changes neither the clock,
\* nor the events and their flags, nor the live fireworks (their phase,
\* phase time and particles included)
C19_IdleUpdateNoOp ==
    [][(~isPlaying /\ last'.op \in {"update", "updateIdle"}) =>
          UNCHANGED <<currentTime, events, activeFireworks, isPlaying>>]_vars

\* C19 witness: update was called on a show paused in the middle, with a
\* triggered event and a live firework
C19_Witness ==
    /\ last.op = "updateIdle"
    /\ ~isPlaying
    /\ currentTime > 0
    /\ activeFireworks # <<>>
    /\ \E i \in 1..Len(events) : events[i].triggered
    /\ \E i \in 1..Len(events) : ~events[i].triggered

\* C20: updateEvent and removeEvent called with an id that no event of the
\* list has find nothing (updateEvent returns undefined, removeEvent
\* false), raise no error, and leave the events, their order, their
\* triggered flags and the duration as they were
C20_UnknownIdNoOp ==
    [][(/\ last'.op \in {"updateEvent", "removeEvent"}
        /\ \A i \in 1..Len(events) : events[i].id # last'.arg) =>
          /\ ~last'.hit
          /\ ~raised'
          /\ UNCHANGED <<events, duration>>]_vars

\* C20 witness: removeEvent was called with an id that is not in a list of
\* two or more events, one of them triggered
C20_Witness ==
    /\ last.op = "removeEvent"
    /\ ~last.hit
    /\ Len(events) >= 2
    /\ \A i \in 1..Len(events) : events[i].id # last.arg
    /\ \E i \in 1..Len(events) : events[i].triggered

(***************************************************************************)
(* Undo and redo (the editor's history).  A snapshot holds the nine stored *)
(* fields of every event, id, x and enabled of every launcher, and the     *)
(* duration; its timestamp and action name only feed the display and are   *)
(* left out.  isUndoRedoAction is true only inside undo and redo, which    *)
(* never call saveState, so saveState's early return is never taken.       *)
(***************************************************************************)
MAX_HISTORY == 50

\* deepCloneState
DeepCloneState ==
    [events |-> [i \in 1..Len(events) |-> [f \in SavedFields |-> events[i][f]]],
     launchers |-> [i \in 1..Len(launchers) |->
                       [id |-> launchers[i].id, x |-> launchers[i].x,
                        enabled |-> launchers[i].enabled]],
     duration |-> duration]

\* saveState without the limit on the stack's size
SaveStateNoLimit ==
    /\ undoStack' = Append(undoStack, DeepCloneState)
    /\ redoStack' = <<>>

\* saveState: what a handler does to the stacks before it makes its change
SaveState ==
    /\ undoStack' = LET s == Append(undoStack, DeepCloneState)
                    IN  IF Len(s) > MAX_HISTORY THEN Tail(s) ELSE s
    /\ redoStack' = <<>>

\* restoreState, events: the saved fields with triggered: false
RestoreEvents(saved) ==
    [i \in 1..Len(saved) |->
        [f \in SavedFields \cup {"triggered"} |->
            IF f = "triggered" THEN FALSE ELSE saved[i][f]]]

\* restoreState, launchers: x and enabled are copied by index, surplus
\* launchers are popped, and missing ones are made by addLauncher() (which
\* takes its id from nextId) and then given the saved x and enabled
RECURSIVE RestoreLaunchers(_, _, _)
RestoreLaunchers(ls, saved, nid) ==
    LET copied == [i \in 1..Len(ls) |->
                      IF i <= Len(saved)
                      THEN [ls[i] EXCEPT !.x = saved[i].x,
                                         !.enabled = saved[i].enabled]
                      ELSE ls[i]]
    IN  IF Len(copied) >= Len(saved)
        THEN [launchers |-> SubSeq(copied, 1, Len(saved)), nextId |-> nid]
        ELSE LET s == saved[Len(copied) + 1]
                 new == [Launcher(nid, ClampX(CanvasWidth \div 2))
                            EXCEPT !.x = s.x, !.enabled = s.enabled]
             IN  RestoreLaunchers(Append(copied, new), saved, nid + 1)

\* restoreState(state)
RestoreState(state) ==
    LET r == RestoreLaunchers(launchers, state.launchers, nextId)
    IN  /\ events' = RestoreEvents(state.events)
        /\ launchers' = r.launchers
        /\ nextId' = r.nextId
        /\ duration' = state.duration

Undo ==
    /\ IF undoStack = <<>>
       THEN /\ UNCHANGED <<events, launchers, nextId, duration,
                           undoStack, redoStack>>
            /\ last' = NoLast("undo")
       ELSE /\ redoStack' = Append(redoStack, DeepCloneState)
            /\ undoStack' = SubSeq(undoStack, 1, Len(undoStack) - 1)
            /\ RestoreState(undoStack[Len(undoStack)])
            /\ last' = [NoLast("undo") EXCEPT !.hit = TRUE]
    /\ raised' = FALSE
    /\ UNCHANGED <<activeFireworks, currentTime, isPlaying, playbackSpeed,
                   loop, evtSeq>>

Redo ==
    /\ IF redoStack = <<>>
       THEN /\ UNCHANGED <<events, launchers, nextId, duration,
                           undoStack, redoStack>>
            /\ last' = NoLast("redo")
       ELSE /\ undoStack' = Append(undoStack, DeepCloneState)
            /\ redoStack' = SubSeq(redoStack, 1, Len(redoStack) - 1)
            /\ RestoreState(redoStack[Len(redoStack)])
            /\ last' = [NoLast("redo") EXCEPT !.hit = TRUE]
    /\ raised' = FALSE
    /\ UNCHANGED <<activeFireworks, currentTime, isPlaying, playbackSpeed,
                   loop, evtSeq>>

(***************************************************************************)
(* SpecUndo: the editor's recorded actions (saveState, then the change:    *)
(* an event added, edited, deleted, all events cleared, a launcher added,  *)
(* removed or dragged), undo and redo.  The handlers only act on events    *)
(* and launchers that exist, as the editor's lists and buttons do.         *)
(***************************************************************************)
MaxUndo == 2
MaxRestoreId == 7
UndoTimes == {0, 500}
UndoData == {[time |-> t, launcherId |-> 3] : t \in UndoTimes}
UndoLaunchers == {3, 5, 6}
UndoXs == {450}

NextUndo ==
    \/ /\ Len(undoStack) < MaxUndo
       /\ Len(events) < MaxEvents
       /\ evtSeq < MaxEvents
       /\ \E data \in UndoData : AddEvent(data)
       /\ SaveState
       /\ UNCHANGED <<weather, audio, freed>>
    \/ /\ Len(undoStack) < MaxUndo
       /\ \E id \in EventIds, data \in UndoData :
             /\ EventIndex(events, id) # 0
             /\ UpdateEvent(id, data)
       /\ SaveState
       /\ UNCHANGED <<weather, audio, freed>>
    \/ /\ Len(undoStack) < MaxUndo
       /\ \E id \in EventIds :
             /\ EventIndex(events, id) # 0
             /\ RemoveEvent(id)
       /\ SaveState
       /\ UNCHANGED <<weather, audio, freed>>
    \/ /\ Len(undoStack) < MaxUndo
       /\ events # <<>>
       /\ ClearEvents
       /\ SaveState
       /\ UNCHANGED <<weather, audio, freed>>
    \/ /\ Len(undoStack) < MaxUndo
       /\ Len(launchers) < maxLaunchers
       /\ nextId <= MaxLauncherId
       /\ AddLauncher(<<>>)
       /\ SaveState
       /\ UNCHANGED <<weather, audio, freed>>
    \/ /\ Len(undoStack) < MaxUndo
       /\ Len(launchers) > minLaunchers
       /\ \E id \in UndoLaunchers :
             /\ LauncherIndex(launchers, id) # 0
             /\ RemoveLauncher(id)
       /\ SaveState
       /\ UNCHANGED <<weather, audio, freed>>
    \/ /\ Len(undoStack) < MaxUndo
       /\ \E id \in UndoLaunchers, x \in UndoXs :
             /\ LauncherIndex(launchers, id) # 0
             /\ MoveLauncher(id, x)
       /\ SaveState
       /\ UNCHANGED <<weather, audio, freed>>
    \/ /\ nextId <= MaxRestoreId
       /\ Undo
       /\ UNCHANGED <<weather, audio, freed>>
    \/ /\ nextId <= MaxRestoreId
       /\ Redo
       /\ UNCHANGED <<weather, audio, freed>>

SpecUndo == Init /\ [][NextUndo]_vars

\* C21: an undo restores the events (ids, stored fields, order), the
\* launchers (ids, x positions, enabled flags) and the duration that the
\* newest snapshot holds, i.e. those before the recorded action it undoes
C21_UndoRestores ==
    [][(last'.op = "undo" /\ undoStack # <<>>) =>
          DeepCloneState' = undoStack[Len(undoStack)]]_vars

\* C22: a redo made right after an undo brings back the events, launchers
\* and duration that held before that undo
C22_RedoAfterUndo ==
    [][(last.op = "undo" /\ last.hit /\ last'.op = "redo") =>
          DeepCloneState' = redoStack[Len(redoStack)]]_vars

(***************************************************************************)
(* SpecCapacity: launchers are added and removed from the default five,    *)
(* up to the maximum and down to the minimum, with ids present and absent. *)
(***************************************************************************)
MaxAddId == 11
CapacityIds == 1..MaxAddId

NextCapacity ==
    \/ /\ nextId <= MaxAddId
       /\ \E arg \in {<<>>} : AddLauncher(arg)
       /\ UNCHANGED <<undoStack, redoStack, weather, audio, freed>>
    \/ /\ \E id \in CapacityIds : RemoveLauncher(id)
       /\ UNCHANGED <<undoStack, redoStack, weather, audio, freed>>

SpecCapacity == Init /\ [][NextCapacity]_vars

\* C23: through addLauncher and removeLauncher calls the number of
\* launchers stays within minLaunchers..maxLaunchers; addLauncher on ten
\* launchers and removeLauncher on one are refused (null, false) without
\* an error and leave the launchers and nextId as they were
C23_LauncherCapacity ==
    [][/\ Len(launchers') >= minLaunchers
       /\ Len(launchers') <= maxLaunchers
       /\ (last'.op = "addLauncher" /\ Len(launchers) = 10) =>
              (~last'.hit /\ ~raised' /\ UNCHANGED <<launchers, nextId>>)
       /\ (last'.op = "removeLauncher" /\ Len(launchers) = 1) =>
              (~last'.hit /\ ~raised' /\ UNCHANGED <<launchers, nextId>>)]_vars

\* C23 witness: addLauncher was refused on ten launchers
C23_Witness ==
    /\ last.op = "addLauncher"
    /\ ~last.hit
    /\ Len(launchers) = 10

(***************************************************************************)
(* SpecTicks: one chrysanthemum event at time 0 with height 'high', of any *)
(* size and trail, played from the start at speed 1 in ticks of 16 ms,     *)
(* with every draw of particle lifetimes.                                  *)
(***************************************************************************)
TickMs == 16

TickData ==
    {[time |-> 0, type |-> "chrysanthemum", height |-> "high",
      size |-> s, trail |-> t] :
        s \in DOMAIN SIZE_MULTIPLIERS, t \in DOMAIN TRAIL_CONFIGS}

NextTicks ==
    \/ /\ events = <<>>
       /\ \E data \in TickData : AddEvent(data)
       /\ UNCHANGED <<undoStack, redoStack, weather, audio, freed>>
    \/ /\ events # <<>>
       /\ currentTime = 0
       /\ Play
       /\ UNCHANGED <<undoStack, redoStack, weather, audio, freed>>
    \/ /\ \E d \in Draws : Update(TickMs, [i \in 1..MaxLive |-> d])
       /\ UNCHANGED <<undoStack, redoStack, weather, audio, freed>>

SpecTicks == Init /\ [][NextTicks]_vars

COLOR_PALETTES ==
    <<[primary |-> "#ff0000", secondary |-> "#ffaa00"],
      [primary |-> "#00ff00", secondary |-> "#00ffaa"],
      [primary |-> "#0088ff", secondary |-> "#00ffff"],
      [primary |-> "#ff00ff", secondary |-> "#ff88ff"],
      [primary |-> "#ffff00", secondary |-> "#ffffff"],
      [primary |-> "#ff6600", secondary |-> "#ffcc00"],
      [primary |-> "#9900ff", secondary |-> "#ff00ff"],
      [primary |-> "#ffffff", secondary |-> "#aaddff"],
      [primary |-> "#ff0066", secondary |-> "#ff6699"],
      [primary |-> "#00ffaa", secondary |-> "#aaffff"]>>

\* Object.keys(FIREWORK_TYPES).filter(t => t !== 'comet')
AllowedTypes ==
    <<"chrysanthemum", "willow", "palm", "peony", "crackle", "ring", "heart",
      "crossette", "brocade", "strobe", "waterfall", "saturn", "spider">>

\* seq[Math.floor(Math.random() * seq.length)]
Pick(seq, r) == seq[(r * Len(seq)) \div RandSteps + 1]

\* every intensity paced as 'gradual'
FinaleOffsetGradual(intensity, i, n, D, r) == (i * i * D) \div (n * n)

\* timeOffset of event i of n: progress = i / n
FinaleOffset(intensity, i, n, D, r) ==
    CASE intensity = "steady" -> (i * D) \div n
      [] intensity = "chaos" -> (r * D) \div RandSteps
      [] OTHER -> (i * i * D) \div (n * n)

\* finaleStart
FinaleStart(options, es) ==
    IF "startTime" \in DOMAIN options THEN options.startTime
    ELSE IF es # <<>> THEN MaxTimeOf(es) + 2000 ELSE 5000

\* colors.filter(c => c !== primary)
Others(colors, primary) == SelectSeq(colors, LAMBDA c : c # primary)

\* seq[Math.floor(Math.random() * seq.length)] of a list that may be empty:
\* "" stands for the undefined that indexing an empty array gives
PickOrUndefined(seq, r) == IF seq = <<>> THEN "" ELSE Pick(seq, r)

\* getCustomPalette(colors)
GetCustomPalette(colors, r) ==
    LET primary == Pick(colors, r)
        secondary == Pick(colors, r)
    IN  [primary |-> primary,
         secondary |-> IF Len(colors) > 1 /\ secondary = primary
                       THEN PickOrUndefined(Others(colors, primary), r)
                       ELSE secondary]

\* getThemePalette(theme) for 'random' and for a name COLOR_THEMES lacks
\* ('custom' is one): getRandomColorPalette()
GetThemePalette(theme, r) == Pick(COLOR_PALETTES, r)

\* options.customColors || []
CustomColors(options) ==
    IF "customColors" \in DOMAIN options THEN options.customColors ELSE <<>>

\* finaleEvents
FinaleEvents(options, es, ls, r) ==
    LET finaleDuration == NumOr(options, "duration", 10000)
        fireworkCount == NumOr(options, "count", 25)
        intensity == StrOr(options, "intensity", "gradual")
        theme == StrOr(options, "theme", "random")
        palette == IF theme = "custom" /\ CustomColors(options) # <<>>
                   THEN GetCustomPalette(CustomColors(options), r)
                   ELSE GetThemePalette(theme, r)
    IN  [k \in 1..fireworkCount |->
            LET i == k - 1
            IN  [time |-> FinaleStart(options, es) +
                          FinaleOffset(intensity, i, fireworkCount,
                                       finaleDuration, r),
                 launcherId |-> ls[(i % Len(ls)) + 1].id,
                 type |-> Pick(AllowedTypes, r),
                 primaryColor |-> palette.primary,
                 secondaryColor |-> palette.secondary,
                 size |-> Pick(<<"small", "medium", "large">>, r),
                 height |-> Pick(<<"low", "medium", "high">>, r),
                 trail |-> Pick(<<"none", "sparkle", "comet">>, r)]]

\* addFinaleWithOptions(options); last.arg is options, last.from the
\* finale's start time and last.returned the number the call returns
AddFinaleWithOptions(options, r) ==
    LET fe == FinaleEvents(options, events, launchers, r)
        E == LoadEvents(fe, [events |-> events, evtSeq |-> evtSeq])
    IN  /\ events' = E.events
        /\ evtSeq' = E.evtSeq
        /\ duration' = IF fe = <<>> THEN duration ELSE UpdateDuration(E.events)
        /\ raised' = FALSE
        /\ last' = [NoLast("addFinale") EXCEPT
                        !.arg = options, !.returned = Len(fe),
                        !.from = FinaleStart(options, events)]
        /\ UNCHANGED <<activeFireworks, currentTime, isPlaying, playbackSpeed,
                       loop, launchers, nextId>>

(***************************************************************************)
(* SpecFinale: finales of every intensity, with and without a start time,  *)
(* with counts and durations given, zero or absent, on an empty timeline   *)
(* and after events at 0 and 3000 ms.                                      *)
(***************************************************************************)
MaxBefore == 3
FinaleTimes == {0, 3000}
FinaleCounts == {0, 2, 4}
FinaleDurations == {0, 10000}
FinaleStarts == {0, 1000}

FinaleOptions ==
    LET timed == {[intensity |-> s, count |-> n, duration |-> D] :
                     s \in {"steady", "gradual", "chaos"},
                     n \in FinaleCounts, D \in FinaleDurations}
    IN  timed
        \cup {[startTime |-> t, intensity |-> o.intensity, count |-> o.count,
               duration |-> o.duration] : t \in FinaleStarts, o \in timed}
        \cup {[intensity |-> "steady"]}

NextFinale ==
    \/ /\ Len(events) < MaxEvents
       /\ \E t \in FinaleTimes : AddEvent([time |-> t])
       /\ UNCHANGED <<undoStack, redoStack, weather, audio, freed>>
    \/ /\ Len(events) < MaxBefore
       /\ \E options \in FinaleOptions, r \in 0..(RandSteps - 1) :
             AddFinaleWithOptions(options, r)
       /\ UNCHANGED <<undoStack, redoStack, weather, audio, freed>>

SpecFinale == Init /\ [][NextFinale]_vars

\* the event that generateEventId's k-th id went to
Added(es, k) == es[EventIndex(es, k)]

\* what C25 says of a 'steady' finale of n events over D ms
SteadyFinale(options, n, D) ==
    LET start == IF "startTime" \in DOMAIN options THEN options.startTime
                 ELSE IF events = <<>> THEN 5000
                 ELSE MaxTimeOf(events) + 2000
    IN  /\ Len(events') = Len(events) + n
        /\ last'.returned = n
        /\ \A i \in 0..(n - 1) :
               Added(events', evtSeq + 1 + i).time = start + (i * D) \div n
        /\ \A k \in 1..Len(events) : \E j \in 1..Len(events') :
               events'[j] = events[k]

\* C25 as stated: a 'steady' finale with count n and duration D adds n
\* events, returns n, and gives event i the time start + (i / n) * D
C25_SteadyForAnyCount ==
    [][(/\ last'.op = "addFinale"
        /\ last'.arg.intensity = "steady"
        /\ "count" \in DOMAIN last'.arg) =>
           SteadyFinale(last'.arg, last'.arg.count, last'.arg.duration)]_vars

\* C25 amended: the same for a count n >= 1 and a duration D >= 1; a count
\* of 0 is taken as 25 and a duration of 0 as 10000, like absent ones
C25_SteadyTimes ==
    [][(/\ last'.op = "addFinale"
        /\ last'.arg.intensity = "steady") =>
           SteadyFinale(last'.arg, NumOr(last'.arg, "count", 25),
                        NumOr(last'.arg, "duration", 10000))]_vars

\* C25 witness: a 'steady' finale of 4 events over 10000 ms was added with
\* no start time after an event at 3000 ms: 5000, 7500, 10000 and 12500 ms
C25_Witness ==
    /\ last.op = "addFinale"
    /\ last.arg.intensity = "steady"
    /\ last.returned = 4
    /\ last.from = 5000
    /\ Len(events) = 5
    /\ events[1].time = 3000
    /\ events[2].time = 5000
    /\ events[3].time = 7500
    /\ events[4].time = 10000
    /\ events[5].time = 12500
    /\ events[5].launcherId = 4

(***************************************************************************)
(* SpecLoad: documents are loaded one after another into the same show:    *)
(* with and without a weather section, an audio section, settings, a       *)
(* settings.duration, and events; events are also added in between.        *)
(***************************************************************************)
Merge(a, b) ==
    [f \in DOMAIN a \cup DOMAIN b |-> IF f \in DOMAIN a THEN a[f] ELSE b[f]]

LoadTimes == {0, 3000}

WeatherParts ==
    {<<>>,
     [weather |-> [windSpeed |-> 50, windDirection |-> "left",
                   smokeEnabled |-> TRUE, smokeDensity |-> 5]],
     [weather |-> [windSpeed |-> 20]]}

AudioParts ==
    {<<>>,
     [audio |-> [enabled |-> FALSE, volume |-> 80, crowdEnabled |-> FALSE]]}

SettingsParts ==
    {<<>>,
     [settings |-> [showStars |-> TRUE]],
     [settings |-> [duration |-> 8000, showStars |-> TRUE]]}

EventsParts ==
    {<<>>, [events |-> <<>>], [events |-> <<[id |-> 7, time |-> 3000]>>]}

LoadDocs ==
    {Merge(Merge(w, a), Merge(s, e)) :
        w \in WeatherParts, a \in AudioParts,
        s \in SettingsParts, e \in EventsParts}

NextLoad ==
    \/ /\ Len(events) < MaxEvents
       /\ evtSeq < MaxEvents
       /\ \E t \in LoadTimes : AddEvent([time |-> t])
       /\ UNCHANGED <<undoStack, redoStack, weather, audio, freed>>
    \/ /\ \E doc \in LoadDocs : FromJSON(doc)
       /\ UNCHANGED <<undoStack, redoStack, freed>>

SpecLoad == Init /\ [][NextLoad]_vars

\* C26: after a document without a weather section is loaded the weather
\* state has its default values, and after one without an audio section
\* the audio state has its default values
C26_MissingSectionsDefault ==
    [][last'.op = "fromJSON" =>
          /\ "weather" \notin DOMAIN last'.arg => weather' = DefaultWeather
          /\ "audio" \notin DOMAIN last'.arg => audio' = DefaultAudio]_vars

\* C27: after a document whose settings are absent, or present without a
\* duration, is loaded the duration is 30000 ms
C27_MissingDurationDefault ==
    [][(/\ last'.op = "fromJSON"
        /\ \/ "settings" \notin DOMAIN last'.arg
           \/ "duration" \notin DOMAIN last'.arg.settings) =>
          duration' = 30000]_vars

(***************************************************************************)
(* SpecLive: one firework of any type, size and height is launched and the *)
(* show is ticked again and again (the render loop calls update on every   *)
(* frame), with every draw of particle lifetimes.                          *)
(***************************************************************************)
LiveDts == {500}

LiveData ==
    {[type |-> ty, size |-> sz, height |-> h] :
        ty \in DOMAIN FIREWORK_TYPES, sz \in DOMAIN SIZE_MULTIPLIERS,
        h \in DOMAIN HEIGHT_CONFIGS}

LiveTick ==
    /\ \E dt \in LiveDts, d \in Draws : Update(dt, [i \in 1..MaxLive |-> d])
    /\ UNCHANGED <<undoStack, redoStack, weather, audio, freed>>

NextLive ==
    \/ /\ events = <<>>
       /\ \E data \in LiveData : AddEvent(data)
       /\ UNCHANGED <<undoStack, redoStack, weather, audio, freed>>
    \/ /\ events # <<>>
       /\ currentTime = 0
       /\ Play
       /\ UNCHANGED <<undoStack, redoStack, weather, audio, freed>>
    \/ LiveTick

SpecLive == Init /\ [][NextLive]_vars /\ WF_vars(LiveTick)

RunDts == {250}
RunTimes == {0, 500}
RunTypes == {"chrysanthemum", "peony"}
RunData == {[time |-> t, type |-> ty] : t \in RunTimes, ty \in RunTypes}

RunTick ==
    /\ \E dt \in RunDts, d \in Draws : Update(dt, [i \in 1..MaxLive |-> d])
    /\ UNCHANGED <<undoStack, redoStack, weather, audio, freed>>

NextRun ==
    \/ /\ ~isPlaying
       /\ events = <<>>
       /\ \E data \in RunData : AddEvent(data)
       /\ UNCHANGED <<undoStack, redoStack, weather, audio, freed>>
    \/ /\ ~isPlaying
       /\ \E s \in Speeds : SetSpeed(s)
       /\ UNCHANGED <<undoStack, redoStack, weather, audio, freed>>
    \/ /\ ~isPlaying
       /\ events # <<>>
       /\ Play
       /\ UNCHANGED <<undoStack, redoStack, weather, audio, freed>>
    \/ RunTick

SpecRun == Init /\ [][NextRun]_vars /\ WF_vars(RunTick)

\* C29: with loop off, a playing show that keeps being ticked and gets no
\* other call eventually is stopped: not playing, clock 0, no live
\* firework, every trigger flag false
C29_ShowStops ==
    (isPlaying /\ ~loop) ~>
        (/\ ~isPlaying
         /\ currentTime = 0
         /\ activeFireworks = <<>>
         /\ \A i \in 1..Len(events) : ~events[i].triggered)

\* C29 witness: a tick has stopped a show of one event played at speed 2
\* after its clock passed the duration
C29_Witness ==
    /\ last.op = "update"
    /\ last.time >= duration
    /\ ~isPlaying
    /\ currentTime = 0
    /\ activeFireworks = <<>>
    /\ Len(events) = 1
    /\ playbackSpeed = 2
    /\ \A i \in 1..Len(events) : ~events[i].triggered


(***************************************************************************)
(* SpecLoop: a show of one event of any type, size and height at time 0    *)
(* (duration 5000) is set up while stopped, with either speed and with or  *)
(* without loop, then played and ticked; nothing else is called.           *)
(***************************************************************************)
LoopDts == {250}

LoopTick ==
    /\ \E dt \in LoopDts, d \in Draws : Update(dt, [i \in 1..MaxLive |-> d])
    /\ UNCHANGED <<undoStack, redoStack, weather, audio, freed>>

NextLoop ==
    \/ /\ events = <<>>
       /\ \E data \in LiveData : AddEvent(data)
       /\ UNCHANGED <<undoStack, redoStack, weather, audio, freed>>
    \/ /\ ~isPlaying
       /\ currentTime = 0
       /\ \E s \in Speeds : SetSpeed(s)
       /\ UNCHANGED <<undoStack, redoStack, weather, audio, freed>>
    \/ /\ ~isPlaying
       /\ currentTime = 0
       /\ \E b \in BOOLEAN : SetLoop(b)
       /\ UNCHANGED <<undoStack, redoStack, weather, audio, freed>>
    \/ /\ events # <<>>
       /\ currentTime = 0
       /\ Play
       /\ UNCHANGED <<undoStack, redoStack, weather, audio, freed>>
    \/ LoopTick

SpecLoop == Init /\ [][NextLoop]_vars

\* C30: at the tick that takes the clock to the duration (last event time
\* + 5000 ms) every launched firework is already done: no firework is live
\* after that tick and the wrap of a looping show discards none
C30_BufferEnough ==
    (last.op = "update" /\ ~raised /\ last.from < duration /\
     last.time >= duration) =>
        (activeFireworks = <<>> /\ last.dropped = 0)

(***************************************************************************)
(* SpecOnce: events are added, re-timed and removed while the show is      *)
(* played, paused, stopped, sought and ticked, at either speed and with    *)
(* loop on or off.                                                         *)
(***************************************************************************)
OnceTimes == {0}
OncePatches == {[time |-> 1000]}
OnceDts == {1000}
OnceSeeks == {1000}
MaxOnce == 2
OnceIds == 1..MaxOnce
OnceData == {[time |-> t] : t \in OnceTimes}

NextOnce ==
    \/ /\ Len(events) < MaxEvents
       /\ evtSeq < MaxOnce
       /\ \E data \in OnceData : AddEvent(data)
       /\ UNCHANGED <<undoStack, redoStack, weather, audio, freed>>
    \/ /\ \E id \in OnceIds, up \in OncePatches : UpdateEvent(id, up)
       /\ UNCHANGED <<undoStack, redoStack, weather, audio, freed>>
    \/ /\ \E id \in OnceIds : RemoveEvent(id)
       /\ UNCHANGED <<undoStack, redoStack, weather, audio, freed>>
    \/ /\ \E dt \in OnceDts : Update(dt, [i \in 1..MaxLive |-> NoDraw])
       /\ UNCHANGED <<undoStack, redoStack, weather, audio, freed>>
    \/ /\ Play
       /\ UNCHANGED <<undoStack, redoStack, weather, audio, freed>>
    \/ /\ Pause
       /\ UNCHANGED <<undoStack, redoStack, weather, audio, freed>>
    \/ /\ Stop
       /\ UNCHANGED <<undoStack, redoStack, weather, audio, freed>>
    \/ /\ \E t \in OnceSeeks : Seek(t)
       /\ UNCHANGED <<undoStack, redoStack, weather, audio, freed>>
    \/ /\ \E s \in Speeds : SetSpeed(s)
       /\ UNCHANGED <<undoStack, redoStack, weather, audio, freed>>
    \/ /\ \E b \in BOOLEAN : SetLoop(b)
       /\ UNCHANGED <<undoStack, redoStack, weather, audio, freed>>

SpecOnce == Init /\ [][NextOnce]_vars

\* a step that resets the trigger state: stop, seek, fromJSON, the loop
\* wrap or the automatic stop of update, play at the end of the show
TriggerReset ==
    \/ last'.op \in {"stop", "seek", "fromJSON"}
    \/ last'.op = "update" /\ (last'.wrapped \/ (isPlaying /\ ~isPlaying'))
    \/ last'.op = "play" /\ last'.wrapped

\* C31: between two resets of the trigger state an event is launched at
\* most once: an update launches an event once, only when its flag is
\* clear, and leaves the flag set (unless that update itself resets), and
\* a set flag is cleared only by a reset or by updateEvent of that event
C31_LaunchedOnce ==
    [][/\ last'.op = "update" =>
             /\ \A k, m \in 1..Len(last'.launched) :
                    last'.launched[k] = last'.launched[m] => k = m
             /\ \A id \in IdsOf(last'.launched) :
                    /\ EventIndex(events, id) # 0
                    /\ ~EventById(id).triggered
                    /\ EventIndex(events', id) # 0
                    /\ \/ events'[EventIndex(events', id)].triggered
                       \/ TriggerReset
       /\ \A id \in FlagCleared :
             \/ TriggerReset
             \/ last'.op = "updateEvent" /\ last'.arg = id]_vars

\* C31 witness: a tick of the playing show has passed over an event that was
\* launched earlier and has not launched it again
C31_Witness ==
    /\ last.op = "update"
    /\ isPlaying
    /\ ~last.wrapped
    /\ last.time > last.from
    /\ \E i \in 1..Len(events) :
           /\ events[i].triggered
           /\ events[i].time < last.from
           /\ events[i].id \notin IdsOf(last.launched)
    /\ activeFireworks # <<>>

\* C32: after an update made while playing that neither wraps nor stops the
\* show, every event whose time is at or before the clock has its flag set,
\* whenever the event was added
C32_NoDueEventSkipped ==
    (last.op = "update" /\ ~last.wrapped /\ isPlaying) =>
        \A i \in 1..Len(events) :
            events[i].time <= currentTime => events[i].triggered

\* C32 witness: a tick that started after time 0 has launched an event with
\* time 0, which addEvent put in the list while the clock was already past
\* it
C32_Witness ==
    /\ last.op = "update"
    /\ ~last.wrapped
    /\ isPlaying
    /\ last.from > 0
    /\ \E i \in 1..Len(events) :
           /\ events[i].time = 0
           /\ events[i].id \in IdsOf(last.launched)
           /\ events[i].triggered

(***************************************************************************)
(* SpecQuiet: a document that disables launcher 2 may be loaded, events    *)
(* are added on launcher 1, on launcher 2 and on launcher 9, which does    *)
(* not exist, and the show is played and ticked.                           *)
(***************************************************************************)
QuietDts == {250}
QuietTimes == {0, 250}
QuietLaunchers == {1, 2, 9}
QuietData ==
    {[time |-> t, launcherId |-> l] : t \in QuietTimes, l \in QuietLaunchers}
QuietDoc ==
    [launchers |-> <<[id |-> 1, x |-> 150], [id |-> 2, x |-> 300, enabled |-> FALSE]>>,
     events |-> <<>>]

NextQuiet ==
    \/ /\ events = <<>>
       /\ ~isPlaying
       /\ FromJSON(QuietDoc)
       /\ UNCHANGED <<undoStack, redoStack, freed>>
    \/ /\ Len(events) < MaxEvents
       /\ \E data \in QuietData : AddEvent(data)
       /\ UNCHANGED <<undoStack, redoStack, weather, audio, freed>>
    \/ /\ Play
       /\ UNCHANGED <<undoStack, redoStack, weather, audio, freed>>
    \/ /\ \E dt \in QuietDts : Update(dt, [i \in 1..MaxLive |-> NoDraw])
       /\ UNCHANGED <<undoStack, redoStack, weather, audio, freed>>

SpecQuiet == Init /\ [][NextQuiet]_vars

\* the live fireworks that event id launched
FireworksOf(fws, id) == {k \in 1..Len(fws) : fws[k].eid = id}

\* C33: an update marks every due event; one whose launcher is missing or
\* disabled gets no firework, no launcher flash and no onEventTriggered
\* call, and the other due events of the tick are launched all the same
C33_QuietWithoutLauncher ==
    [][(last'.op = "update" /\ ~raised' /\ ~last'.wrapped /\ isPlaying') =>
          \A i \in 1..Len(events) :
              LET e == events[i]
                  li == LauncherIndex(launchers, e.launcherId)
              IN  (~e.triggered /\ last'.time >= e.time) =>
                      /\ events'[i] = [e EXCEPT !.triggered = TRUE]
                      /\ IF li = 0 \/ ~launchers[li].enabled
                         THEN /\ e.id \notin IdsOf(last'.launched)
                              /\ FireworksOf(activeFireworks', e.id) = {}
                              /\ li # 0 => launchers'[li].flash <= launchers[li].flash
                         ELSE /\ e.id \in IdsOf(last'.launched)
                              /\ FireworksOf(activeFireworks', e.id) # {}
                              /\ launchers'[li].flash > 0]_vars

\* C33 witness: one tick found two events due, one on a disabled launcher
\* and one on launcher 1; both are marked and only the second has a
\* firework
C33_Witness ==
    /\ last.op = "update"
    /\ Len(events) = 2
    /\ \A i \in 1..2 : events[i].triggered /\ events[i].time <= last.time
                                           /\ events[i].time >= last.from
    /\ \E i \in 1..2 : events[i].launcherId = 1 /\
                       events[i].id \in IdsOf(last.launched)
    /\ \E i \in 1..2 : events[i].launcherId = 2 /\
                       events[i].id \notin IdsOf(last.launched)
    /\ ~launchers[2].enabled
    /\ Len(activeFireworks) = 1
    /\ launchers[2].flash = 0

\* every particle of the firework reaches its lifetime within dt
AllSpent(fw, dt) ==
    \A k \in 1..Len(fw.particles) :
        fw.particles[k].age + dt >= fw.particles[k].lifetime

\* C34: a tick of a firework in burst leaves it in fade exactly when fewer
\* than 10 particles are live at the end of the tick; a tick of a firework
\* in fade ends it exactly when no particle is left or more than 3 s of the
\* fade have passed, so a firework in fade is never past 3 s at the end of
\* a tick
C34_PhaseThresholds ==
    [][(/\ last'.op = "update"
        /\ ~raised'
        /\ ~last'.wrapped
        /\ Len(activeFireworks) = 1) =>
          LET fw == activeFireworks[1]
              dt == (last'.time - last'.from) \div playbackSpeed
              gone == activeFireworks' = <<>>
          IN  /\ fw.phase = "burst" =>
                    /\ ~gone
                    /\ activeFireworks'[1].phase =
                           IF CountParticles(activeFireworks'[1].particles) < 10
                           THEN "fade" ELSE "burst"
              /\ fw.phase = "fade" =>
                    /\ gone <=> (AllSpent(fw, dt) \/ fw.phaseTime + dt > 3000)
                    /\ ~gone =>
                          /\ activeFireworks'[1].phase = "fade"
                          /\ activeFireworks'[1].phaseTime = fw.phaseTime + dt
                          /\ activeFireworks'[1].phaseTime <= 3000
                          /\ CountParticles(activeFireworks'[1].particles) > 0]_vars

\* C34 witness: a firework has been in fade for 3 s and still has particles
\* that outlive the next tick, which ends it by the timeout
C34_Witness ==
    /\ last.op = "update"
    /\ Len(activeFireworks) = 1
    /\ activeFireworks[1].phase = "fade"
    /\ activeFireworks[1].phaseTime = 3000
    /\ \A dt \in FireDts : ~AllSpent(activeFireworks[1], dt)

(***************************************************************************)
(* SpecCrackle: one crackle firework of any size is launched and ticked in *)
(* steps of 100 ms and of 1 s, with every draw; a long step lets most or   *)
(* all of its particles die before the secondary burst.                    *)
(***************************************************************************)
CrackleDts == {100, 1000}

CrackleData ==
    {[type |-> "crackle", size |-> sz] : sz \in DOMAIN SIZE_MULTIPLIERS}

NextCrackle ==
    \/ /\ events = <<>>
       /\ \E data \in CrackleData : AddEvent(data)
       /\ UNCHANGED <<undoStack, redoStack, weather, audio, freed>>
    \/ /\ events # <<>>
       /\ currentTime = 0
       /\ Play
       /\ UNCHANGED <<undoStack, redoStack, weather, audio, freed>>
    \/ /\ \E dt \in CrackleDts, d \in Draws :
              Update(dt, [i \in 1..MaxLive |-> d])
       /\ UNCHANGED <<undoStack, redoStack, weather, audio, freed>>

SpecCrackle == Init /\ [][NextCrackle]_vars

\* C35: the tick in which the secondary burst triggers keeps the n particles
\* that outlive the tick and adds 8 * min(secondaryCount, floor(0.3 * n))
\* new ones, each created where one of those n particles now is, which is
\* not the burst centre
C35_SecondaryBurst ==
    [][(/\ last'.op = "update"
        /\ ~raised'
        /\ Len(activeFireworks) = 1
        /\ Len(activeFireworks') = 1
        /\ ~activeFireworks[1].secondaryBurstTriggered
        /\ activeFireworks'[1].secondaryBurstTriggered) =>
          LET fw == activeFireworks[1]
              nw == activeFireworks'[1]
              dt == (last'.time - last'.from) \div playbackSpeed
              kept == UpdateParticles(fw.particles, dt)
              n == CountParticles(kept)
              sel == Min(FIREWORK_TYPES[fw.type].secondaryCount, (3 * n) \div 10)
              added == SubSeq(nw.particles, Len(kept) + 1, Len(nw.particles))
          IN  /\ SubSeq(nw.particles, 1, Len(kept)) = kept
              /\ CountParticles(added) = 8 * sel
              /\ \A k \in 1..Len(added) :
                     /\ added[k].age = 0
                     /\ \E j \in 1..Len(kept) : kept[j].y = added[k].y
                     /\ added[k].y # nw.y]_vars

\* C35 witness: the secondary burst found 5 particles left, selected one
\* (30% of 5) and added 8 particles below the burst centre
C35_Witness ==
    /\ last.op = "update"
    /\ Len(activeFireworks) = 1
    /\ activeFireworks[1].secondaryBurstTriggered
    /\ CountParticles(activeFireworks[1].particles) = 5 + 8
    /\ \E k \in 1..Len(activeFireworks[1].particles) :
           /\ activeFireworks[1].particles[k].age = 0
           /\ activeFireworks[1].particles[k].n = 8
           /\ activeFireworks[1].particles[k].y > activeFireworks[1].y

(***************************************************************************)
(* SpecPalette: finales with theme 'custom' over lists of custom colors    *)
(* (empty, one entry, distinct entries, repeated entries), and with theme  *)
(* 'random', of one or two events, on an empty timeline and after events   *)
(* at 0 and 3000 ms.                                                       *)
(***************************************************************************)
PaletteColors ==
    {<<>>, <<"#112233">>, <<"#112233", "#445566">>,
     <<"#112233", "#112233">>, <<"#112233", "#445566", "#112233">>,
     <<"#ffaa00", "#ffaa00">>}
PaletteCounts == {1, 2}

PaletteOptions ==
    {[theme |-> "custom", customColors |-> cs, count |-> n] :
        cs \in PaletteColors, n \in PaletteCounts}
    \cup {[theme |-> "random", count |-> n] : n \in PaletteCounts}

NextPalette ==
    \/ /\ Len(events) < MaxBefore
       /\ \E options \in PaletteOptions, r \in 0..(RandSteps - 1) :
             AddFinaleWithOptions(options, r)
       /\ UNCHANGED <<undoStack, redoStack, weather, audio, freed>>
    \/ /\ Len(events) < MaxEvents
       /\ \E t \in FinaleTimes : AddEvent([time |-> t])
       /\ UNCHANGED <<undoStack, redoStack, weather, audio, freed>>

SpecPalette == Init /\ [][NextPalette]_vars

\* the entries of a list of colors
Entries(colors) == {colors[i] : i \in 1..Len(colors)}

\* the events a finale added: those with the ids generated during the call
FinaleAdded == {Added(events', k) : k \in (evtSeq + 1)..evtSeq'}

\* C36 as stated: with theme 'custom' and a non-empty list of custom colors
\* every finale event's primaryColor and secondaryColor are entries of the
\* list, and they differ when the list has at least two entries
C36_CustomColorsOnly ==
    [][(/\ last'.op = "addFinale"
        /\ last'.arg.theme = "custom"
        /\ last'.arg.customColors # <<>>) =>
           \A e \in FinaleAdded :
               /\ e.primaryColor \in Entries(last'.arg.customColors)
               /\ e.secondaryColor \in Entries(last'.arg.customColors)
               /\ Len(last'.arg.customColors) >= 2 =>
                      e.primaryColor # e.secondaryColor]_vars

(***************************************************************************)
(* SpecIds: launchers are added and removed by the editor's handlers       *)
(* (saveState, then the change), the changes are undone and redone, and    *)
(* the show is saved and loaded back or replaced by a document with two    *)
(* launchers.                                                              *)
(***************************************************************************)
IdsRemoved == {5, 6}
IdDocs ==
    {[launchers |-> <<[id |-> 3, x |-> 300, enabled |-> TRUE],
                      [id |-> 1, x |-> 100, enabled |-> TRUE]>>]}

NextIds ==
    \/ /\ Len(undoStack) < MaxUndo
       /\ nextId <= MaxLauncherId
       /\ AddLauncher(<<>>)
       /\ SaveState
       /\ UNCHANGED <<weather, audio, freed>>
    \/ /\ Len(undoStack) < MaxUndo
       /\ \E id \in IdsRemoved : RemoveLauncher(id)
       /\ SaveState
       /\ freed' = IF last'.hit THEN freed \cup {last'.arg} ELSE freed
       /\ UNCHANGED <<weather, audio>>
    \/ /\ nextId <= MaxRestoreId
       /\ Undo
       /\ UNCHANGED <<weather, audio, freed>>
    \/ /\ nextId <= MaxRestoreId
       /\ Redo
       /\ UNCHANGED <<weather, audio, freed>>
    \/ /\ FromJSON(ToJSON)
       /\ UNCHANGED <<undoStack, redoStack, freed>>
    \/ /\ \E doc \in IdDocs : FromJSON(doc)
       /\ UNCHANGED <<undoStack, redoStack, freed>>

SpecIds == Init /\ [][NextIds]_vars

\* the ids of a list of launchers
LauncherIds(ls) == {ls[i].id : i \in 1..Len(ls)}

\* launcher ids are pairwise distinct and nextId is above each of them
IdsFresh ==
    /\ \A i, j \in 1..Len(launchers) :
          launchers[i].id = launchers[j].id => i = j
    /\ \A i \in 1..Len(launchers) : launchers[i].id < nextId

\* C37 as stated: ids are distinct and below nextId in every state, and no
\* launcher has an id that removeLauncher has freed
C37_FreedIdNeverGiven ==
    /\ IdsFresh
    /\ freed \cap LauncherIds(launchers) = {}

\* C37 amended: ids are distinct and below nextId in every state, and every
\* call but a load (fromJSON, which restarts nextId from the loaded ids)
\* keeps nextId from falling and gives new launchers ids from the old
\* nextId on, so that an id freed by removeLauncher is not given again
\* before the next load
C37_IdsFreshBetweenLoads ==
    /\ []IdsFresh
    /\ [][last'.op \notin {"fromJSON", "roundTrip"} =>
            /\ nextId' >= nextId
            /\ \A k \in LauncherIds(launchers') \ LauncherIds(launchers) : k >= nextId]_vars

\* C37 witness: launcher 5 was removed and the removal undone: the launcher
\* that undo put back has the id 6, not the freed 5
C37_Witness ==
    /\ last.op = "undo"
    /\ last.hit
    /\ LauncherIds(launchers) = {1, 2, 3, 4, 6}
    /\ nextId = 7
    /\ redoStack # <<>>

\* C38 as stated: with m the multiplier of the event's trail style (none 0,
\* sparkle 1, comet 2) the rocket's trail capacity is 15 * m, and the
\* particles a burst has just made have the trail length trailLength * m of
\* their type, so that with 'none' neither records a trail position
C38_TrailByStyle ==
    \A i \in 1..Len(activeFireworks) :
        LET fw == activeFireworks[i]
            m == TRAIL_CONFIGS[fw.trailEffect]
        IN  /\ fw.rocketTrailLength = 15 * m
            /\ (last.op = "update" /\ <<"launch", "burst">> \in last.trans) =>
                  \A k \in 1..Len(fw.particles) :
                      fw.particles[k].trailLength =
                          FIREWORK_TYPES[fw.type].trailLength * m

(***************************************************************************)
(* SpecHistory: a long editing session.  The first launcher is dragged to  *)
(* the right step by step (saveState, then the move), and the moves are    *)
(* undone and redone, until the launcher has been moved more often than    *)
(* the history holds snapshots.                                            *)
(***************************************************************************)
HistoryStep == 10     \* px the launcher is dragged by each move
HistoryEndX == 670    \* no move from this x on: 52 moves from x = 150

NextHistory ==
    \/ /\ launchers[1].x < HistoryEndX
       /\ MoveLauncher(1, launchers[1].x + HistoryStep)
       /\ SaveState
       /\ UNCHANGED <<weather, audio, freed>>
    \/ /\ Undo
       /\ UNCHANGED <<weather, audio, freed>>
    \/ /\ Redo
       /\ UNCHANGED <<weather, audio, freed>>

SpecHistory == Init /\ [][NextHistory]_vars

\* C39: the undo stack never holds more than MAX_HISTORY snapshots, although
\* redo pushes onto it without a size check; after a recorded action (a
\* saveState outside undo and redo) the redo stack is empty, and a redo
\* called while it is empty changes nothing
C39_HistoryBounded ==
    /\ [](Len(undoStack) <= MAX_HISTORY)
    /\ [](last.op = "moveLauncher" => redoStack = <<>>)
    /\ [][(redoStack = <<>> /\ last'.op = "redo") =>
             (~last'.hit /\ UNCHANGED <<launchers, events, undoStack,
                                        redoStack>>)]_vars

\* C39 witness: the history is full and its oldest snapshot is no longer
\* the first one taken (launcher 1 at x = 150): a saveState has dropped
\* snapshots from the bottom of the stack
C39_Witness ==
    /\ last.op = "moveLauncher"
    /\ Len(undoStack) = MAX_HISTORY
    /\ undoStack[1].launchers[1].x > 150
    /\ redoStack = <<>>

====
